---- MODULE Spec2Model ----
(***************************************************************************)
(* A model of the session layer of package snappy (src/snappy.go): the     *)
(* Conn object shared by concurrent callers, its session lock c.mu, the    *)
(* motion gate (waitToMove / stopMoving), the motion operations built on   *)
(* it, the fan-out/fan-in Status round, Close and the locked readers.      *)
(*                                                                         *)
(* Every goroutine that calls the public API is a thread p \in Threads.    *)
(* A short critical section (Lock; memory operations; Unlock) is one       *)
(* atomic action guarded by mu = NoOne.  Status and Close keep c.mu        *)
(* across blocking network calls, so they own mu over several actions.     *)
(***************************************************************************)
EXTENDS Integers, Sequences, FiniteSets, TLC

\* ------------------------------------------------------------------ bounds
NumThreads == 2        \* concurrent callers of the API on one Conn
NumPayloads == 2       \* distinct response bodies a status endpoint may return

Threads == 1..NumThreads
Closer == NumThreads + 1   \* one more goroutine, which only ever calls Close
Poller == NumThreads + 2   \* the goroutine pollStatus starts
AllThreads == Threads \cup {Closer, Poller}
NoOne == 0             \* c.mu unlocked / no round owner

\* ------------------------------------------------------------- vocabulary
GatedOps == {"Home", "SetOrigin", "GoToOrigin", "MoveTo", "Step",
             "LaserSpot", "LaserCrossHairs", "SnapAtJPEG"}
OtherOps == {"Status", "Close", "CurrentLocation"}
Ops == GatedOps \cup OtherOps

Kinds == {"enc", "mod", "tool"}      \* the three status endpoints

ZVals == {-1, 1}                     \* a Z below and a Z not below zero
Payloads == 1..NumPayloads
StatusVals == {"IDLE", "RUNNING"}   \* values of the status member
\* The tool bodies of an idle machine, and bodies that differ in their status.
ToolPayloads == [Z : ZVals, LaserCamera : BOOLEAN, Status : {"IDLE"}]
StatusPayloads == [Z : {1}, LaserCamera : {FALSE}, Status : StatusVals]
EmptyTool == [Z |-> 0, LaserCamera |-> FALSE, Status |-> ""]
NoPower == [k |-> "none", n |-> 0]  \* no LaserSpot call

\* LaserSpot powers, in tenths: below range, the two ends, above range
Powers == {-1, 0, 15, 16}

VARIABLES
    connected,     \* c.connected
    moving,        \* c.moving
    hasEnclosure,  \* c.hasEnclosure (set by NewConn, never written again)
    mu,            \* holder of c.mu over several steps, or NoOne
    encState,      \* c.encState: the payload last decoded into it
    modState,      \* c.modState
    toolState,     \* c.toolState: [Z, LaserCamera, Status]
    q,             \* the running Status round: per endpoint none/sent/ok/err
    resp,          \* body received by each successful query of the round
    roundOwner,    \* thread whose Status call q and resp belong to
    crashed,       \* the process died of a panic
    pc,            \* per thread: its position in the operation it runs
    op,            \* per thread: the operation it runs
    ctxDone,       \* per thread: the ctx of its call is cancelled
    idx,           \* per thread: index of the G-code line doCodes is at
    arg,           \* per thread: the number it was called with / GoToOrigin's local z
    statusArg,     \* per thread: the status Await was called with
    powerArg,      \* per thread: the power LaserSpot was called with
    err,           \* per thread: the error value it is returning
    waited,        \* per thread: waitToMove has been through its retry wait
    made,          \* NewConn has built the Conn (c # nil)
    modList,       \* c.modList: the listing last decoded into it
    once,          \* pollStatus: the channel once is closed
    pollErr,       \* pollStatus: its named result err
    pollCtx,       \* the ctx given to NewConn is cancelled
    done,          \* the poller's local: its first refresh was delivered
    ncRet,         \* what NewConn returned: [c, err], or NoRet
    conRes,        \* NewConn: the token it sent and the answer to its connect POST
    fixed,         \* c.url, c.token, c.readOnly, c.headType
    detail,        \* codec: the ModuleDetail handed to MarshalJSON
    wire,          \* codec: the JSON text of each record of a listing
    result         \* codec: what the decoder produced: [err, entries]

vars == <<connected, moving, hasEnclosure, mu, encState, modState, toolState,
          q, resp, roundOwner, crashed, pc, op, ctxDone, idx, arg, statusArg,
          powerArg, err, waited,
          made, modList, once, pollErr, pollCtx, done, ncRet, conRes, fixed,
          detail, wire, result>>

conn == <<connected, moving, hasEnclosure, mu, crashed>>
snaps == <<encState, modState, toolState>>
round == <<q, resp, roundOwner>>
locals == <<op, ctxDone, idx, arg, statusArg, powerArg, err, waited>>
session == <<made, modList, once, pollErr, pollCtx, done, ncRet, conRes, fixed>>
codec == <<detail, wire, result>>

NoRet == [c |-> FALSE, err |-> "none"]

\* The tokens a caller may present and the device may echo.
Tokens == {"t1", "t2"}
SupportedSeries == "Snapmaker 2.0 A350"
SeriesNames == {SupportedSeries, "Snapmaker J1"}
\* Answers to the connect POST: transport outcome, HTTP status, whether the
\* body decodes, and the decoded ConnectionResult.
HeadTypes == {1}
ConnectAnswers == [transport : BOOLEAN, ok200 : BOOLEAN, json : BOOLEAN,
                   Token : Tokens, ReadOnly : BOOLEAN, Series : SeriesNames,
                   HeadType : HeadTypes, HasEnclosure : BOOLEAN]
NoAnswer == [token |-> "none"]
\* The fields of a Conn that does not exist yet, and the URL NewConn builds
\* from the ip it is given.
NoFixed == [url |-> "", token |-> "", readOnly |-> FALSE, headType |-> 0]
URL == "http://ip:8080"
\* The zero ModuleDetail: key 0 and a nil Module.
NoDetail == [Key |-> 0, Variant |-> "none", F |-> <<>>]
NoResult == [by |-> "none", err |-> "none", entries |-> <<>>]

NoRound == [k \in Kinds |-> "none"]
NoResp == [enc |-> 0, mod |-> 0, tool |-> EmptyTool]

\* A GoToOrigin that moves X and Y first wherever the tool is.
Codes_XYFirst(o, a) ==
    CASE o = "Home" -> <<"G53", "G28">>
      [] o = "SetOrigin" -> <<"G92 X0 Y0 Z0">>
      [] o = "GoToOrigin" -> <<"G0 F1500 X0 Y0", "G0 Z0">>
      [] o = "MoveTo" -> <<"G0 F1500 X Y Z">>
      [] o = "Step" -> <<"G91", "G0 F1500 dX dY dZ", "G90">>
      [] o = "LaserSpot" -> <<"M3 P S">>
      [] o = "LaserCrossHairs" -> <<"M2002 T3 P">>
      [] OTHER -> <<>>

\* The G-code lines of each motion operation, in the order doCodes sends them.
Codes(o, a) ==
    CASE o = "Home" -> <<"G53", "G28">>
      [] o = "SetOrigin" -> <<"G92 X0 Y0 Z0">>
      [] o = "GoToOrigin" -> IF a < 0 THEN <<"G0 F1500 Z0", "G0 X0 Y0">>
                                      ELSE <<"G0 F1500 X0 Y0", "G0 Z0">>
      [] o = "MoveTo" -> <<"G0 F1500 X Y Z">>
      [] o = "Step" -> <<"G91", "G0 F1500 dX dY dZ", "G90">>
      [] o = "LaserSpot" -> <<"M3 P S">>
      [] o = "LaserCrossHairs" -> <<"M2002 T3 P">>
      [] OTHER -> <<>>

\* pc values at which a gated operation is between its grant and its release
HeldPcs == {"z", "code", "post", "cache", "st_lock", "st_round",
            "capture", "release"}
Holds(p) == op[p] \in GatedOps /\ pc[p] \in HeldPcs
InWaitToMove(p) == pc[p] \in {"try", "wait"}
\* A select without its ctx.Done() case.
Cancelled_Never(p) == FALSE

\* select in waitToMove: ctx.Done() is ready.
Cancelled(p) == ctxDone[p]

\* ------------------------------------------------------------------- Init
\* The Conn as NewConn hands it out: connected, gate free, the snapshots
\* filled by the first refresh; the ctx given to NewConn has been cancelled
\* since, and the poller has left its loop.
Init ==
    /\ connected = TRUE
    /\ moving = FALSE
    /\ hasEnclosure \in BOOLEAN
    /\ mu = NoOne
    /\ encState = IF hasEnclosure THEN 1 ELSE 0
    /\ modState = 1
    /\ toolState \in ToolPayloads
    /\ q = NoRound
    /\ resp = NoResp
    /\ roundOwner = NoOne
    /\ crashed = FALSE
    /\ pc = [p \in AllThreads |-> IF p = Poller THEN "p_exit" ELSE "idle"]
    /\ op = [p \in AllThreads |-> "none"]
    /\ ctxDone = [p \in AllThreads |-> FALSE]
    /\ idx = [p \in AllThreads |-> 0]
    /\ arg = [p \in AllThreads |-> 0]
    /\ statusArg = [p \in AllThreads |-> ""]
    /\ powerArg = [p \in AllThreads |-> NoPower]
    /\ err = [p \in AllThreads |-> "nil"]
    /\ waited = [p \in AllThreads |-> FALSE]
    /\ made = TRUE
    /\ modList = 1
    /\ once = TRUE
    /\ pollErr = "nil"
    /\ pollCtx = TRUE
    /\ done = TRUE
    /\ ncRet = [c |-> TRUE, err |-> "nil"]
    /\ conRes = NoAnswer
    /\ fixed = [url |-> URL, token |-> "t1", readOnly |-> FALSE, headType |-> 1]
    /\ detail = NoDetail
    /\ wire = <<>>
    /\ result = NoResult

Running(p) == ~crashed /\ pc[p] # "idle"

\* ---------------------------------------------------------------- calling
\* A thread calls a gated operation with a context that is live (c false)
\* or already cancelled (c true).  LaserSpot checks its argument before anything else.
FirstPc(o) == IF o = "SnapAtJPEG" THEN "cam" ELSE "try"

CallGated(p, o, c, a) ==
    /\ ~crashed /\ pc[p] = "idle"
    /\ o \in GatedOps /\ c \in BOOLEAN
    /\ op' = [op EXCEPT ![p] = o]
    /\ ctxDone' = [ctxDone EXCEPT ![p] = c]
    /\ arg' = [arg EXCEPT ![p] = IF o = "MoveTo" THEN a ELSE 0]
    /\ UNCHANGED <<statusArg, powerArg>>
    /\ pc' = [pc EXCEPT ![p] = FirstPc(o)]
    /\ UNCHANGED <<session, codec, conn, snaps, round, idx, err, waited>>

LaserSpotInvalid(p, power) ==
    /\ ~crashed /\ pc[p] = "idle"
    /\ power < 0 \/ power > 15
    /\ op' = [op EXCEPT ![p] = "LaserSpot"]
    /\ err' = [err EXCEPT ![p] = "ErrInvalid"]
    /\ pc' = [pc EXCEPT ![p] = "ret"]
    /\ UNCHANGED <<session, codec, conn, snaps, round, ctxDone, idx, arg, statusArg,
                   powerArg, waited>>

\* Go's < on float64 values: false as soon as an operand is a NaN.
Less(x, y) ==
    CASE x.k = "nan" \/ y.k = "nan" -> FALSE
      [] x.k = "inf" -> x.n < 0 /\ ~(y.k = "inf" /\ y.n < 0)
      [] y.k = "inf" -> y.n > 0
      [] OTHER -> x.n < y.n

\* LaserSpot called with a float64 power, in tenths: the whole of its check,
\* then waitToMove.
PowerVals ==
    {[k |-> "fin", n |-> -1], [k |-> "fin", n |-> 0], [k |-> "fin", n |-> 15],
     [k |-> "fin", n |-> 16], [k |-> "nan", n |-> 0], [k |-> "inf", n |-> 1]}

CallLaserSpot(p, power, c) ==
    /\ ~crashed /\ pc[p] = "idle" /\ c \in BOOLEAN
    /\ op' = [op EXCEPT ![p] = "LaserSpot"]
    /\ powerArg' = [powerArg EXCEPT ![p] = power]
    /\ UNCHANGED <<arg, statusArg>>
    /\ IF Less(power, [k |-> "fin", n |-> 0]) \/ Less([k |-> "fin", n |-> 15], power)
          THEN /\ err' = [err EXCEPT ![p] = "ErrInvalid"]
               /\ pc' = [pc EXCEPT ![p] = "ret"]
               /\ UNCHANGED ctxDone
          ELSE /\ pc' = [pc EXCEPT ![p] = "try"]
               /\ ctxDone' = [ctxDone EXCEPT ![p] = c]
               /\ UNCHANGED err
    /\ UNCHANGED <<session, codec, conn, snaps, round, idx, waited>>

\* EncFan and EncLED: the percentage is checked, nothing else is; a value in
\* range goes on to the POST.
EncOps == {"EncFan", "EncLED"}
Percents == {-1, 0, 100, 101}

CallEnc(p, o, v) ==
    /\ ~crashed /\ pc[p] = "idle" /\ o \in EncOps
    /\ op' = [op EXCEPT ![p] = o]
    /\ arg' = [arg EXCEPT ![p] = v]
    /\ UNCHANGED <<statusArg, powerArg>>
    /\ IF v < 0 \/ v > 100
          THEN /\ err' = [err EXCEPT ![p] = "ErrInvalid"]
               /\ pc' = [pc EXCEPT ![p] = "ret"]
          ELSE /\ pc' = [pc EXCEPT ![p] = "enc_post"]
               /\ UNCHANGED err
    /\ UNCHANGED <<session, codec, conn, snaps, round, ctxDone, idx, waited>>

\* The POST to the enclosure endpoint answers 200 or fails.
EncPost(p, ok) ==
    /\ Running(p) /\ pc[p] = "enc_post"
    /\ err' = [err EXCEPT ![p] = IF ok THEN "nil" ELSE "ErrWire"]
    /\ pc' = [pc EXCEPT ![p] = "ret"]
    /\ UNCHANGED <<session, codec, conn, snaps, round, op, ctxDone, idx, arg,
                   statusArg, powerArg, waited>>

\* A thread's context is cancelled while its operation has not been granted
\* the gate.  (No operation reads its ctx once waitToMove has returned, so
\* ctxDone and waited are dropped at the grant.)
Cancel(p) ==
    /\ Running(p) /\ pc[p] \in {"cam", "try", "wait"}
    /\ op[p] \in GatedOps /\ ~ctxDone[p]
    /\ ctxDone' = [ctxDone EXCEPT ![p] = TRUE]
    /\ UNCHANGED <<session, codec, conn, snaps, round, pc, op, idx, arg, statusArg,
                   powerArg, err, waited>>

\* The caller takes the result; the thread is free to call again.
Return(p) ==
    /\ ~crashed /\ pc[p] = "ret"
    /\ pc' = [pc EXCEPT ![p] = "idle"]
    /\ op' = [op EXCEPT ![p] = "none"]
    /\ ctxDone' = [ctxDone EXCEPT ![p] = FALSE]
    /\ idx' = [idx EXCEPT ![p] = 0]
    /\ arg' = [arg EXCEPT ![p] = 0]
    /\ statusArg' = [statusArg EXCEPT ![p] = ""]
    /\ powerArg' = [powerArg EXCEPT ![p] = NoPower]
    /\ err' = [err EXCEPT ![p] = "nil"]
    /\ waited' = [waited EXCEPT ![p] = FALSE]
    /\ IF roundOwner = p
          THEN q' = NoRound /\ resp' = NoResp /\ roundOwner' = NoOne
          ELSE UNCHANGED round
    /\ UNCHANGED <<session, codec, conn, snaps>>

\* ------------------------------------------------------------ motion gate
\* What a gated operation does first once waitToMove has returned nil.
AfterGrant(o) ==
    CASE o = "GoToOrigin" -> "z"
      [] o = "SnapAtJPEG" -> "capture"
      [] OTHER -> "code"

\* waitToMove without the check of c.moving.
Grantable_IgnoresMoving(p) == connected

\* waitToMove looking at its ctx before its first attempt.
Grantable_UnlessCancelled(p) == connected /\ ~moving /\ ~ctxDone[p]

\* The locked section of waitToMove grants on c.connected and c.moving alone.
Grantable(p) == connected /\ ~moving

\* One iteration of waitToMove's loop up to its returns: Lock, read
\* connected, grant if connected and not moving, Unlock.
WaitToMoveTry(p) ==
    /\ Running(p) /\ pc[p] = "try" /\ mu = NoOne
    /\ IF ~connected
          THEN /\ err' = [err EXCEPT ![p] = "ErrNotConnected"]
               /\ pc' = [pc EXCEPT ![p] = "ret"]
               /\ UNCHANGED <<moving, idx, ctxDone, waited>>
          ELSE IF Grantable(p)
          THEN /\ moving' = TRUE
               /\ pc' = [pc EXCEPT ![p] = AfterGrant(op[p])]
               /\ idx' = [idx EXCEPT ![p] = 1]
               /\ ctxDone' = [ctxDone EXCEPT ![p] = FALSE]
               /\ waited' = [waited EXCEPT ![p] = FALSE]
               /\ UNCHANGED err
          ELSE /\ pc' = [pc EXCEPT ![p] = "wait"]
               /\ UNCHANGED <<moving, err, idx, ctxDone, waited>>
    /\ UNCHANGED <<session, codec, connected, hasEnclosure, mu, crashed, snaps, round,
                   op, arg, statusArg, powerArg>>

\* select: the 1 ms timer fires and the loop goes round again.
WaitToMoveRetry(p) ==
    /\ Running(p) /\ pc[p] = "wait" /\ ~Cancelled(p)
    /\ pc' = [pc EXCEPT ![p] = "try"]
    /\ waited' = [waited EXCEPT ![p] = TRUE]
    /\ UNCHANGED <<session, codec, conn, snaps, round, op, ctxDone, idx, arg,
                   statusArg, powerArg, err>>

\* select: ctx.Done() is ready.
WaitToMoveCanceled(p) ==
    /\ Running(p) /\ pc[p] = "wait" /\ Cancelled(p)
    /\ err' = [err EXCEPT ![p] = "ErrCanceled"]
    /\ pc' = [pc EXCEPT ![p] = "ret"]
    /\ UNCHANGED <<session, codec, conn, snaps, round, op, ctxDone, idx, arg,
                   statusArg, powerArg, waited>>

\* A stopMoving that leaves the flag set.
Released_StaysMoving == TRUE

\* What stopMoving stores into c.moving.
Released == FALSE

\* Where a gated operation goes once its stopMoving has run.
AfterRelease(p) ==
    IF op[p] = "SnapAtJPEG" /\ err[p] = "nil" THEN "image" ELSE "ret"

\* A stopMoving that clears moving without taking c.mu.
StopMoving_NoLock(p) ==
    /\ Running(p) /\ pc[p] = "release"
    /\ moving' = Released
    /\ pc' = [pc EXCEPT ![p] = AfterRelease(p)]
    /\ UNCHANGED <<session, codec, connected, hasEnclosure, mu, crashed, snaps, round,
                   locals>>

StopMoving(p) ==
    /\ Running(p) /\ pc[p] = "release" /\ mu = NoOne
    /\ moving' = Released
    /\ pc' = [pc EXCEPT ![p] = AfterRelease(p)]
    /\ UNCHANGED <<session, codec, connected, hasEnclosure, mu, crashed, snaps,
                   round, locals>>

\* NowMoving: Lock, old := c.moving, c.moving = moving, Unlock, return old.
\* Any caller may call it with any value; the old value is what it returns.
NowMoving(p, b) ==
    /\ ~crashed /\ pc[p] = "idle" /\ mu = NoOne /\ b \in BOOLEAN
    /\ op' = [op EXCEPT ![p] = "NowMoving"]
    /\ arg' = [arg EXCEPT ![p] = IF moving THEN 1 ELSE 0]
    /\ moving' = b
    /\ pc' = [pc EXCEPT ![p] = "ret"]
    /\ UNCHANGED <<session, codec, connected, hasEnclosure, mu, crashed, snaps, round,
                   ctxDone, idx, statusArg, powerArg, err, waited>>

\* -------------------------------------------------------------- wire calls
\* An error return that skips the deferred stopMoving.
FailPc_SkipsRelease(o) == "ret"

\* Where a motion operation goes when doCodes returns an error: the deferred
\* stopMoving runs before the operation returns.
FailPc(o) == "release"

\* Where a motion operation goes when doCodes has sent all its lines.
AfterCodes(o) ==
    CASE o = "MoveTo" -> "cache"
      [] o = "Step" -> "st_lock"
      [] OTHER -> "release"

\* A doCode that gives up when the context of the operation is cancelled.
DoCodeCheck_HonoursCtx(p) ==
    /\ Running(p) /\ pc[p] = "code" /\ mu = NoOne
    /\ IF ctxDone[p]
          THEN /\ err' = [err EXCEPT ![p] = "ErrCanceled"]
               /\ pc' = [pc EXCEPT ![p] = FailPc(op[p])]
          ELSE IF connected
          THEN pc' = [pc EXCEPT ![p] = "post"] /\ UNCHANGED err
          ELSE /\ err' = [err EXCEPT ![p] = "ErrNotConnected"]
               /\ pc' = [pc EXCEPT ![p] = FailPc(op[p])]
    /\ UNCHANGED <<session, codec, conn, snaps, round, op, ctxDone, idx, arg,
                   statusArg, powerArg, waited>>

\* doCode, first half: Lock, read c.connected, Unlock.
DoCodeCheck(p) ==
    /\ Running(p) /\ pc[p] = "code" /\ mu = NoOne
    /\ IF connected
          THEN pc' = [pc EXCEPT ![p] = "post"] /\ UNCHANGED err
          ELSE /\ err' = [err EXCEPT ![p] = "ErrNotConnected"]
               /\ pc' = [pc EXCEPT ![p] = FailPc(op[p])]
    /\ UNCHANGED <<session, codec, conn, snaps, round, op, ctxDone, idx, arg,
                   statusArg, powerArg, waited>>

\* A doCodes that notes a failure and goes on with the next line.
DoCodePost_KeepsGoing(p, ok) ==
    /\ Running(p) /\ pc[p] = "post"
    /\ err' = [err EXCEPT ![p] = IF ok THEN err[p] ELSE "ErrWire"]
    /\ IF idx[p] < Len(Codes(op[p], arg[p]))
          THEN /\ idx' = [idx EXCEPT ![p] = idx[p] + 1]
               /\ pc' = [pc EXCEPT ![p] = "code"]
          ELSE /\ pc' = [pc EXCEPT ![p] = IF err'[p] = "nil" THEN AfterCodes(op[p])
                                                            ELSE FailPc(op[p])]
               /\ UNCHANGED idx
    /\ UNCHANGED <<session, codec, conn, snaps, round, op, ctxDone, arg, statusArg,
                   powerArg, waited>>

\* doCode, second half: the POST to execute_code answers 200, or fails
\* (transport error or another status); doCodes stops at the first failure.
DoCodePost(p, ok) ==
    /\ Running(p) /\ pc[p] = "post"
    /\ IF ~ok
          THEN /\ err' = [err EXCEPT ![p] = "ErrWire"]
               /\ pc' = [pc EXCEPT ![p] = FailPc(op[p])]
               /\ UNCHANGED idx
          ELSE IF idx[p] < Len(Codes(op[p], arg[p]))
          THEN /\ idx' = [idx EXCEPT ![p] = idx[p] + 1]
               /\ pc' = [pc EXCEPT ![p] = "code"]
               /\ UNCHANGED err
          ELSE /\ pc' = [pc EXCEPT ![p] = AfterCodes(op[p])]
               /\ UNCHANGED <<idx, err>>
    /\ UNCHANGED <<session, codec, conn, snaps, round, op, ctxDone, arg, statusArg,
                   powerArg, waited>>

\* GoToOrigin reads the cached Z under the lock, after the grant.
GoToOriginReadZ(p) ==
    /\ Running(p) /\ pc[p] = "z" /\ mu = NoOne
    /\ arg' = [arg EXCEPT ![p] = toolState.Z]
    /\ UNCHANGED <<statusArg, powerArg>>
    /\ pc' = [pc EXCEPT ![p] = "code"]
    /\ UNCHANGED <<session, codec, conn, snaps, round, op, ctxDone, idx, err, waited>>

\* A MoveTo that stores its target without taking c.mu.
MoveToCache_NoLock(p) ==
    /\ Running(p) /\ pc[p] = "cache"
    /\ toolState' = [toolState EXCEPT !.Z = arg[p]]
    /\ pc' = [pc EXCEPT ![p] = "release"]
    /\ UNCHANGED <<session, codec, conn, encState, modState, round, locals>>

\* MoveTo stores its target into the cached tool state after the move.
MoveToCache(p) ==
    /\ Running(p) /\ pc[p] = "cache" /\ mu = NoOne
    /\ toolState' = [toolState EXCEPT !.Z = arg[p]]
    /\ pc' = [pc EXCEPT ![p] = "release"]
    /\ UNCHANGED <<session, codec, conn, encState, modState, round, locals>>

\* SnapAtJPEG reads the cached camera flag under the lock, before the gate.
SnapCameraCheck(p) ==
    /\ Running(p) /\ pc[p] = "cam" /\ mu = NoOne
    /\ IF toolState.LaserCamera
          THEN pc' = [pc EXCEPT ![p] = "try"] /\ UNCHANGED <<err, ctxDone>>
          ELSE /\ err' = [err EXCEPT ![p] = "ErrNoCamera"]
               /\ pc' = [pc EXCEPT ![p] = "ret"]
               /\ ctxDone' = [ctxDone EXCEPT ![p] = FALSE]
    /\ UNCHANGED <<session, codec, conn, snaps, round, op, idx, arg, statusArg,
                   powerArg, waited>>

\* SnapAtJPEG's request_capture_photo GET: stopMoving follows on every
\* outcome; only a 200 answer goes on to fetch the image.
SnapCapture(p, ok) ==
    /\ Running(p) /\ pc[p] = "capture"
    /\ err' = [err EXCEPT ![p] = IF ok THEN "nil" ELSE "ErrWire"]
    /\ pc' = [pc EXCEPT ![p] = "release"]
    /\ UNCHANGED <<session, codec, conn, snaps, round, op, ctxDone, idx, arg,
                   statusArg, powerArg, waited>>

\* SnapAtJPEG's get_camera_image GET, after the gate was released.  On a
\* transport error resp is nil and "defer resp.Body.Close()" dereferences it.
SnapImage(p, r) ==
    /\ Running(p) /\ pc[p] = "image"
    /\ r \in {"ok", "status", "transport"}
    /\ IF r = "transport"
          THEN crashed' = TRUE /\ UNCHANGED <<pc, err>>
          ELSE /\ err' = [err EXCEPT ![p] = IF r = "ok" THEN "nil" ELSE "ErrWire"]
               /\ pc' = [pc EXCEPT ![p] = "ret"]
               /\ UNCHANGED crashed
    /\ UNCHANGED <<session, codec, connected, moving, hasEnclosure, mu, snaps, round,
                   op, ctxDone, idx, arg, statusArg, powerArg, waited>>

\* ----------------------------------------------------------------- Status
\* A thread calls Status, Close or CurrentLocation.
OtherFirstPc(o) ==
    CASE o = "Status" -> "st_lock"
      [] o = "Close" -> "cl_lock"
      [] OTHER -> "rd_lock"

CallOther(p, o) ==
    /\ ~crashed /\ pc[p] = "idle" /\ o \in OtherOps
    /\ op' = [op EXCEPT ![p] = o]
    /\ pc' = [pc EXCEPT ![p] = OtherFirstPc(o)]
    /\ UNCHANGED <<session, codec, conn, snaps, round, ctxDone, idx, arg, statusArg,
                   powerArg, err, waited>>

\* A round that queries the enclosure whatever the session says.
Queried_Always(enclosure) == Kinds

\* The endpoints a round queries.
Queried(enclosure) == IF enclosure THEN Kinds ELSE {"mod", "tool"}

\* A Status that reports the tool error first.
StatusResult_ToolFirst(qq) ==
    IF qq["tool"] = "err" THEN "ErrTool"
    ELSE IF qq["mod"] = "err" THEN "ErrMod"
    ELSE IF qq["enc"] = "err" THEN "ErrEnc"
    ELSE "nil"

\* The value Status returns from the three error variables.
StatusResult(qq) ==
    IF qq["enc"] = "err" THEN "ErrEnc"
    ELSE IF qq["mod"] = "err" THEN "ErrMod"
    ELSE IF qq["tool"] = "err" THEN "ErrTool"
    ELSE "nil"

\* A Status that unlocks before it waits for its queries.
RoundLock_Unlocked(p) == NoOne

\* Status keeps c.mu from its Lock to its deferred Unlock.
RoundLock(p) == p

\* Where Status returns to: its caller, or Step (which drops the result).
AfterStatus(p) == IF op[p] = "Step" THEN "release" ELSE "ret"

\* A Status that starts its round whatever c.connected says.
StatusBegin_NoCheck(p) ==
    /\ Running(p) /\ pc[p] = "st_lock" /\ mu = NoOne
    /\ mu' = RoundLock(p)
    /\ q' = [k \in Kinds |-> IF k \in Queried(hasEnclosure) THEN "sent" ELSE "none"]
    /\ resp' = NoResp
    /\ roundOwner' = p
    /\ pc' = [pc EXCEPT ![p] = "st_round"]
    /\ UNCHANGED <<session, codec, connected, moving, hasEnclosure, crashed, snaps,
                   locals>>

\* Status: Lock; not connected -> ErrNotConnected; else start one goroutine
\* per queried endpoint and keep the lock.
StatusBegin(p) ==
    /\ Running(p) /\ pc[p] = "st_lock" /\ mu = NoOne
    /\ IF ~connected
          THEN /\ pc' = [pc EXCEPT ![p] = AfterStatus(p)]
               /\ err' = [err EXCEPT ![p] =
                            IF op[p] = "Step" THEN err[p] ELSE "ErrNotConnected"]
               /\ UNCHANGED <<mu, round>>
          ELSE /\ mu' = RoundLock(p)
               /\ q' = [k \in Kinds |->
                          IF k \in Queried(hasEnclosure) THEN "sent" ELSE "none"]
               /\ resp' = NoResp
               /\ roundOwner' = p
               /\ pc' = [pc EXCEPT ![p] = "st_round"]
               /\ UNCHANGED err
    /\ UNCHANGED <<session, codec, connected, moving, hasEnclosure, crashed, snaps,
                   op, ctxDone, idx, arg, statusArg, powerArg, waited>>

\* A decode that stores the module body into the enclosure snapshot too.
WriteSnap_Spills(k, d) ==
    /\ encState' = IF k \in {"enc", "mod"} THEN d ELSE encState
    /\ modState' = IF k = "mod" THEN d ELSE modState
    /\ toolState' = IF k = "tool" THEN d ELSE toolState

\* The snapshots after the query of endpoint k decoded body d into its own.
WriteSnap(k, d) ==
    /\ encState' = IF k = "enc" THEN d ELSE encState
    /\ modState' = IF k = "mod" THEN d ELSE modState
    /\ toolState' = IF k = "tool" THEN d ELSE toolState

BodiesOf(k) == IF k = "tool" THEN ToolPayloads \cup StatusPayloads ELSE Payloads

\* encStatus / modStatus / toolStatus succeed: the body is decoded into the
\* endpoint's own snapshot and the goroutine is done.
QueryOk(p, k, d) ==
    /\ Running(p) /\ pc[p] = "st_round" /\ q[k] = "sent"
    /\ d \in BodiesOf(k)
    /\ WriteSnap(k, d)
    /\ q' = [q EXCEPT ![k] = "ok"]
    /\ resp' = [resp EXCEPT ![k] = d]
    /\ UNCHANGED <<session, codec, conn, roundOwner, pc, locals>>

\* They fail: a transport error or a syntax error writes nothing, a type
\* error is reported by Decode after it stored the fields that did decode.
QueryErr(p, k, partial, d) ==
    /\ Running(p) /\ pc[p] = "st_round" /\ q[k] = "sent"
    /\ d \in BodiesOf(k)
    /\ IF partial THEN WriteSnap(k, d) ELSE UNCHANGED snaps
    /\ q' = [q EXCEPT ![k] = "err"]
    /\ UNCHANGED <<session, codec, conn, resp, roundOwner, pc, locals>>

\* A Status that goes on as soon as one goroutine is done.
AllDone_FirstOnly(qq) == \E k \in Kinds : qq[k] \in {"ok", "err"}

\* wg.Wait() lets Status go on once every goroutine it started is done.
AllDone(qq) == \A k \in Kinds : qq[k] # "sent"

\* Status: after wg.Wait(), pick the result, Unlock.
StatusEnd(p) ==
    /\ Running(p) /\ pc[p] = "st_round" /\ AllDone(q)
    /\ mu' = NoOne
    /\ err' = [err EXCEPT ![p] =
                 IF op[p] = "Step" THEN err[p] ELSE StatusResult(q)]
    /\ pc' = [pc EXCEPT ![p] = AfterStatus(p)]
    /\ IF op[p] = "Step"
          THEN q' = NoRound /\ resp' = NoResp /\ roundOwner' = NoOne
          ELSE UNCHANGED round
    /\ UNCHANGED <<session, codec, connected, moving, hasEnclosure, crashed, snaps,
                   op, ctxDone, idx, arg, statusArg, powerArg, waited>>

\* ------------------------------------------------------------------ Close
\* A Close that posts the disconnect whatever c.connected says.
CloseBegin_NoCheck(p) ==
    /\ Running(p) /\ pc[p] = "cl_lock" /\ mu = NoOne
    /\ mu' = p
    /\ pc' = [pc EXCEPT ![p] = "cl_post"]
    /\ UNCHANGED <<session, codec, connected, moving, hasEnclosure, crashed,
                   snaps, round, locals>>

\* Close: Lock; not connected -> ErrNotConnected; else POST disconnect with
\* the lock held.
CloseBegin(p) ==
    /\ Running(p) /\ pc[p] = "cl_lock" /\ mu = NoOne
    /\ IF ~connected
          THEN /\ err' = [err EXCEPT ![p] = "ErrNotConnected"]
               /\ pc' = [pc EXCEPT ![p] = "ret"]
               /\ UNCHANGED mu
          ELSE /\ mu' = p
               /\ pc' = [pc EXCEPT ![p] = "cl_post"]
               /\ UNCHANGED err
    /\ UNCHANGED <<session, codec, connected, moving, hasEnclosure, crashed, snaps, round,
                   op, ctxDone, idx, arg, statusArg, powerArg, waited>>

\* A Close that forgets the token and the enclosure with the session.
CloseEnd_ForgetsToken(p, ok) ==
    /\ Running(p) /\ pc[p] = "cl_post"
    /\ connected' = IF ok THEN FALSE ELSE connected
    /\ fixed' = IF ok THEN [fixed EXCEPT !.token = ""] ELSE fixed
    /\ hasEnclosure' = IF ok THEN FALSE ELSE hasEnclosure
    /\ err' = [err EXCEPT ![p] = IF ok THEN "nil" ELSE "ErrWire"]
    /\ mu' = NoOne
    /\ pc' = [pc EXCEPT ![p] = "ret"]
    /\ UNCHANGED <<made, modList, once, pollErr, pollCtx, done, ncRet, conRes, codec,
                   moving, crashed, snaps, round, op, ctxDone, idx, arg, statusArg,
                   powerArg, waited>>

\* A Close that gives the session up also when the disconnect fails.
CloseEnd_AlwaysDisconnects(p, ok) ==
    /\ Running(p) /\ pc[p] = "cl_post"
    /\ connected' = FALSE
    /\ err' = [err EXCEPT ![p] = IF ok THEN "nil" ELSE "ErrWire"]
    /\ mu' = NoOne
    /\ pc' = [pc EXCEPT ![p] = "ret"]
    /\ UNCHANGED <<session, codec, moving, hasEnclosure, crashed, snaps, round,
                   op, ctxDone, idx, arg, statusArg, powerArg, waited>>

\* The disconnect POST answers 200 (connected := false) or fails; Unlock.
CloseEnd(p, ok) ==
    /\ Running(p) /\ pc[p] = "cl_post"
    /\ connected' = IF ok THEN FALSE ELSE connected
    /\ err' = [err EXCEPT ![p] = IF ok THEN "nil" ELSE "ErrWire"]
    /\ mu' = NoOne
    /\ pc' = [pc EXCEPT ![p] = "ret"]
    /\ UNCHANGED <<session, codec, moving, hasEnclosure, crashed, snaps, round,
                   op, ctxDone, idx, arg, statusArg, powerArg, waited>>

\* ---------------------------------------------------------------- readers
\* A CurrentLocation that copies without taking c.mu.
CurrentLocation_NoLock(p) ==
    /\ Running(p) /\ pc[p] = "rd_lock"
    /\ arg' = [arg EXCEPT ![p] = toolState.Z]
    /\ UNCHANGED <<statusArg, powerArg>>
    /\ pc' = [pc EXCEPT ![p] = "rd_read"]
    /\ UNCHANGED <<session, codec, conn, snaps, round, op, ctxDone, idx, err, waited>>

\* CurrentLocation, first half: Lock, copy the cached X, Y and Z.
CurrentLocation(p) ==
    /\ Running(p) /\ pc[p] = "rd_lock" /\ mu = NoOne
    /\ mu' = p
    /\ arg' = [arg EXCEPT ![p] = toolState.Z]
    /\ UNCHANGED <<statusArg, powerArg>>
    /\ pc' = [pc EXCEPT ![p] = "rd_read"]
    /\ UNCHANGED <<session, codec, connected, moving, hasEnclosure, crashed, snaps,
                   round, op, ctxDone, idx, err, waited>>

\* CurrentLocation, second half: copy the cached offsets; the deferred
\* Unlock runs.
CurrentLocationEnd(p) ==
    /\ Running(p) /\ pc[p] = "rd_read"
    /\ mu' = NoOne
    /\ pc' = [pc EXCEPT ![p] = "ret"]
    /\ UNCHANGED <<session, codec, connected, moving, hasEnclosure, crashed, snaps,
                   round, locals>>

\* ------------------------------------------------------------------ Await
\* A thread calls Await for a status, with a context that is live or already
\* cancelled.
CallAwait(p, status, c) ==
    /\ ~crashed /\ pc[p] = "idle"
    /\ status \in StatusVals /\ c \in BOOLEAN
    /\ op' = [op EXCEPT ![p] = "Await"]
    /\ statusArg' = [statusArg EXCEPT ![p] = status]
    /\ UNCHANGED <<arg, powerArg>>
    /\ ctxDone' = [ctxDone EXCEPT ![p] = c]
    /\ pc' = [pc EXCEPT ![p] = "aw_read"]
    /\ UNCHANGED <<session, codec, conn, snaps, round, idx, err, waited>>

\* The context of a call is cancelled, at any point of the call.
CancelAnytime(p) ==
    /\ Running(p) /\ pc[p] # "ret" /\ ~ctxDone[p]
    /\ op[p] \in GatedOps \cup {"Await"}
    /\ ctxDone' = [ctxDone EXCEPT ![p] = TRUE]
    /\ UNCHANGED <<session, codec, conn, snaps, round, pc, op, idx, arg, statusArg,
                   powerArg, err, waited>>

\* An Await that returns at its first look, whatever the status is.
AwaitRead_NoCompare(p) ==
    /\ Running(p) /\ pc[p] = "aw_read" /\ mu = NoOne
    /\ pc' = [pc EXCEPT ![p] = "ret"]
    /\ UNCHANGED <<session, codec, conn, snaps, round, locals>>

\* One iteration of Await's loop up to the select: Lock, read the cached
\* status, Unlock, break if it is the awaited one.
AwaitRead(p) ==
    /\ Running(p) /\ pc[p] = "aw_read" /\ mu = NoOne
    /\ pc' = [pc EXCEPT ![p] = IF toolState.Status = statusArg[p] THEN "ret"
                                      ELSE "aw_wait"]
    /\ UNCHANGED <<session, codec, conn, snaps, round, locals>>

\* select: the 1 s timer fires and the loop goes round again.
AwaitTimer(p) ==
    /\ Running(p) /\ pc[p] = "aw_wait" /\ ~Cancelled(p)
    /\ pc' = [pc EXCEPT ![p] = "aw_read"]
    /\ waited' = [waited EXCEPT ![p] = TRUE]
    /\ UNCHANGED <<session, codec, conn, snaps, round, op, ctxDone, idx, arg,
                   statusArg, powerArg, err>>

\* select: ctx.Done() is ready.
AwaitCanceled(p) ==
    /\ Running(p) /\ pc[p] = "aw_wait" /\ Cancelled(p)
    /\ err' = [err EXCEPT ![p] = "ErrCanceled"]
    /\ pc' = [pc EXCEPT ![p] = "ret"]
    /\ UNCHANGED <<session, codec, conn, snaps, round, op, ctxDone, idx, arg,
                   statusArg, powerArg, waited>>

\* ---------------------------------------------------------------- NewConn
\* NewConn, first half: the connect POST is sent with the caller's token and
\* answered.
NewConnPost(token, a) ==
    /\ ~crashed /\ ~made /\ ncRet = NoRet /\ conRes = NoAnswer
    /\ token \in Tokens /\ a \in ConnectAnswers
    /\ conRes' = [token |-> token, a |-> a]
    /\ UNCHANGED <<conn, snaps, round, pc, locals, codec,
                   made, modList, once, pollErr, pollCtx, done, ncRet, fixed>>

\* A NewConn that does not compare the echoed token.
HandshakeErr_NoTokenCheck(token, a) ==
    IF ~a.transport THEN "ErrWire"
    ELSE IF ~a.ok200 THEN "ErrStatus"
    ELSE IF ~a.json THEN "ErrDecode"
    ELSE IF a.Series # SupportedSeries THEN "ErrSeries"
    ELSE "nil"

\* The error of NewConn's checks on the answer, in the order it makes them;
\* "nil" when the answer passes all of them.
HandshakeErr(token, a) ==
    IF ~a.transport THEN "ErrWire"
    ELSE IF ~a.ok200 THEN "ErrStatus"
    ELSE IF ~a.json THEN "ErrDecode"
    ELSE IF token # a.Token THEN "ErrInvalidToken"
    ELSE IF a.Series # SupportedSeries THEN "ErrSeries"
    ELSE "nil"

\* NewConn, second half: a failed check returns (nil, err); otherwise the Conn
\* is built, pollStatus starts its goroutine, and NewConn waits on once.
NewConnCheck ==
    /\ ~crashed /\ ~made /\ ncRet = NoRet /\ conRes # NoAnswer
    /\ IF HandshakeErr(conRes.token, conRes.a) # "nil"
          THEN /\ ncRet' = [c |-> FALSE, err |-> HandshakeErr(conRes.token, conRes.a)]
               /\ UNCHANGED <<made, connected, hasEnclosure, fixed, pc>>
          ELSE /\ made' = TRUE
               /\ connected' = TRUE
               /\ hasEnclosure' = conRes.a.HasEnclosure
               /\ fixed' = [url |-> URL, token |-> conRes.token,
                            readOnly |-> conRes.a.ReadOnly,
                            headType |-> conRes.a.HeadType]
               /\ pc' = [pc EXCEPT ![Poller] = "p_list"]
               /\ UNCHANGED ncRet
    /\ UNCHANGED <<moving, mu, crashed, snaps, round, locals, codec,
                   modList, once, pollErr, pollCtx, done, conRes>>

\* A pollStatus that returns without waiting on once.
NewConnReturn_NoWait ==
    /\ ~crashed /\ made /\ ncRet = NoRet
    /\ ncRet' = [c |-> TRUE, err |-> pollErr]
    /\ UNCHANGED <<conn, snaps, round, pc, locals, codec,
                   made, modList, once, pollErr, pollCtx, done, conRes, fixed>>

\* pollStatus returns once the channel is closed, with the named result as
\* it is then; NewConn returns the Conn with it.
NewConnReturn ==
    /\ ~crashed /\ made /\ ncRet = NoRet /\ once
    /\ ncRet' = [c |-> TRUE, err |-> pollErr]
    /\ UNCHANGED <<conn, snaps, round, pc, locals, codec,
                   made, modList, once, pollErr, pollCtx, done, conRes, fixed>>

\* The ctx given to NewConn is cancelled.
CancelPoll ==
    /\ ~crashed /\ ~pollCtx
    /\ pollCtx' = TRUE
    /\ UNCHANGED <<conn, snaps, round, pc, locals, codec,
                   made, modList, once, pollErr, done, ncRet, conRes, fixed>>

\* ----------------------------------------------------------------- poller
\* The goroutine's first statement: modListing decodes the module list into
\* c.modList (no lock taken).  On an error the result is stored, once is
\* closed and the goroutine returns; a type error leaves what was decoded.
PollModListing(ok, partial, d) ==
    /\ Running(Poller) /\ pc[Poller] = "p_list"
    /\ d \in Payloads
    /\ modList' = IF ok \/ partial THEN d ELSE modList
    /\ IF ok
          THEN /\ pollErr' = "nil"
               /\ pc' = [pc EXCEPT ![Poller] = "st_lock"]
               /\ op' = [op EXCEPT ![Poller] = "Status"]
               /\ UNCHANGED once
          ELSE /\ pollErr' = "ErrList"
               /\ once' = TRUE
               /\ pc' = [pc EXCEPT ![Poller] = "p_exit"]
               /\ UNCHANGED op
    /\ UNCHANGED <<conn, snaps, round, codec, ctxDone, idx, arg, statusArg, powerArg,
                   err, waited,
                   made, pollCtx, done, ncRet, conRes, fixed>>

\* A loop that stores the result and closes once every time round.
PollDeliver_ClosesAgain ==
    /\ Running(Poller) /\ pc[Poller] = "ret"
    /\ pollErr' = err[Poller] /\ done' = TRUE
    /\ IF once
          THEN /\ pc' = [pc EXCEPT ![Poller] = "p_panic"]
               /\ crashed' = TRUE
               /\ UNCHANGED once
          ELSE /\ once' = TRUE
               /\ pc' = [pc EXCEPT ![Poller] = "p_chk"]
               /\ UNCHANGED crashed
    /\ UNCHANGED <<connected, moving, hasEnclosure, mu, snaps, round, codec, locals,
                   made, modList, pollCtx, ncRet, conRes, fixed>>

\* c.Status() has returned err2 in the loop: the first time round (!done) it
\* is stored into the named result, once is closed and done is set.  Closing
\* a channel that is closed already panics.
PollDeliver ==
    /\ Running(Poller) /\ pc[Poller] = "ret"
    /\ IF ~done
          THEN /\ pollErr' = err[Poller] /\ done' = TRUE
               /\ IF once
                     THEN /\ pc' = [pc EXCEPT ![Poller] = "p_panic"]
                          /\ crashed' = TRUE
                          /\ UNCHANGED once
                     ELSE /\ once' = TRUE
                          /\ pc' = [pc EXCEPT ![Poller] = "p_chk"]
                          /\ UNCHANGED crashed
          ELSE /\ pc' = [pc EXCEPT ![Poller] = "p_chk"]
               /\ UNCHANGED <<pollErr, once, done, crashed>>
    /\ UNCHANGED <<connected, moving, hasEnclosure, mu, snaps, round, codec, locals,
                   made, modList, pollCtx, ncRet, conRes, fixed>>

\* if err2 != nil { log.Fatalf(...) }: the process ends; otherwise on to
\* the select.
PollCheck ==
    /\ Running(Poller) /\ pc[Poller] = "p_chk"
    /\ IF err[Poller] # "nil"
          THEN /\ pc' = [pc EXCEPT ![Poller] = "p_fatal"]
               /\ crashed' = TRUE
               /\ UNCHANGED err
          ELSE /\ pc' = [pc EXCEPT ![Poller] = "p_wait"]
               /\ UNCHANGED <<crashed, err>>
    /\ IF roundOwner = Poller
          THEN q' = NoRound /\ resp' = NoResp /\ roundOwner' = NoOne
          ELSE UNCHANGED round
    /\ UNCHANGED <<connected, moving, hasEnclosure, mu, snaps, codec, session,
                   op, ctxDone, idx, arg, statusArg, powerArg, waited>>

\* A loop that sleeps 1 s without a ctx.Done() case.
PollTimer_IgnoresCtx ==
    /\ Running(Poller) /\ pc[Poller] = "p_wait"
    /\ pc' = [pc EXCEPT ![Poller] = "st_lock"]
    /\ UNCHANGED <<conn, snaps, round, codec, session, locals>>

\* select: the 1 s timer fires and the loop calls Status again.
PollTimer ==
    /\ Running(Poller) /\ pc[Poller] = "p_wait" /\ ~pollCtx
    /\ pc' = [pc EXCEPT ![Poller] = "st_lock"]
    /\ UNCHANGED <<conn, snaps, round, codec, session, locals>>

\* select: ctx.Done() is ready and the goroutine returns.
PollExit ==
    /\ Running(Poller) /\ pc[Poller] = "p_wait" /\ pollCtx
    /\ pc' = [pc EXCEPT ![Poller] = "p_exit"]
    /\ UNCHANGED <<conn, snaps, round, codec, session, locals>>

\* --------------------------------------------------------------- ToolHead
ToolKeys == {1, 2}

\* The listing behind payload l: the keys it has an entry for.
KeysOf(l) == IF l = 0 THEN {} ELSE 1..l

\* ToolHead: walk c.modList.ModuleList for the key, with no lock taken.
ToolHead(p, key) ==
    /\ ~crashed /\ pc[p] = "idle" /\ key \in ToolKeys
    /\ op' = [op EXCEPT ![p] = "ToolHead"]
    /\ err' = [err EXCEPT ![p] = IF key \in KeysOf(modList) THEN "nil" ELSE "ErrNoKey"]
    /\ pc' = [pc EXCEPT ![p] = "ret"]
    /\ UNCHANGED <<conn, snaps, round, codec, session, ctxDone, idx, arg, statusArg,
                   powerArg, waited>>

\* ------------------------------------------------------------ module codec
\* Go values of the fields of the module records.
IntV(i) == [k |-> "int", n |-> i]
BoolV(b) == [k |-> "bool", n |-> IF b THEN 1 ELSE 0]
Fin(n) == [k |-> "fin", n |-> n]          \* a finite float64
NaN == [k |-> "nan", n |-> 0]
Inf(sign) == [k |-> "inf", n |-> sign]

\* JSON text is a sequence of tokens: punctuation, a member name with its
\* colon, a number, or a bare word.
T(w) == [t |-> w, n |-> 0]
Num(i) == [t |-> "num", n |-> i]
Punct == {"{", "}", ","}
Words == {"true", "false", "NaN", "+Inf", "-Inf"}
IsName(tok) == tok.t \notin Punct \cup Words \cup {"num"}
IsJSONValue(tok) == tok.t \in {"num", "true", "false"}

\* The six module structs, in the order UnmarshalJSON tries them, with the
\* member name whose presence selects each and their fields in the order
\* the Module*.MarshalJSON methods print them.
Variants == <<"Laser", "Enclosure", "EmergencyStop", "QuickSwap", "BracingKit", "CNC">>

Signature(v) ==
    CASE v = "Laser" -> "laserPower"
      [] v = "Enclosure" -> "isEnclosureDoorOpen"
      [] v = "EmergencyStop" -> "isEmergencyStopped"
      [] v = "QuickSwap" -> "quickSwapState"
      [] v = "BracingKit" -> "bracingKitState"
      [] v = "CNC" -> "spindleSpeed"

FieldsOf(v) ==
    CASE v = "Laser" -> << <<"laserFocalLength", "float">>, <<"laserPower", "float">>,
                           <<"laserCamera", "bool">> >>
      [] v = "Enclosure" -> << <<"isReady", "bool">>, <<"led", "int">>, <<"fan", "int">>,
                               <<"isDoorEnabled", "bool">>,
                               <<"isEnclosureDoorOpen", "bool">>,
                               <<"doorSwitchCount", "int">> >>
      [] v = "EmergencyStop" -> << <<"isEmergencyStopped", "bool">> >>
      [] v = "QuickSwap" -> << <<"quickSwapState", "int">>, <<"quickSwapType", "int">> >>
      [] v = "BracingKit" -> << <<"bracingKitState", "int">> >>
      [] v = "CNC" -> << <<"spindleSpeed", "int">> >>
      [] OTHER -> <<>>

\* A MarshalJSON that prints its bools with %d.
Format_BoolAsNumber(type, v) ==
    CASE type = "int" -> Num(v.n)
      [] type = "bool" -> Num(v.n)
      [] type = "float" ->
           CASE v.k = "fin" -> Num(v.n)
             [] v.k = "nan" -> T("NaN")
             [] v.k = "inf" -> T(IF v.n > 0 THEN "+Inf" ELSE "-Inf")

\* fmt verbs: %d of an int, %v of a bool, %g of a float64.
Format(type, v) ==
    CASE type = "int" -> Num(v.n)
      [] type = "bool" -> T(IF v.n = 1 THEN "true" ELSE "false")
      [] type = "float" ->
           CASE v.k = "fin" -> Num(v.n)
             [] v.k = "nan" -> T("NaN")
             [] v.k = "inf" -> T(IF v.n > 0 THEN "+Inf" ELSE "-Inf")

\* Module*.MarshalJSON: the members of the struct, comma separated, without
\* braces.
RECURSIVE MarshalFields(_, _, _)
MarshalFields(v, F, i) ==
    IF i > Len(FieldsOf(v)) THEN <<>>
    ELSE (IF i > 1 THEN <<T(",")>> ELSE <<>>)
         \o <<T(FieldsOf(v)[i][1]), Format(FieldsOf(v)[i][2], F[i])>>
         \o MarshalFields(v, F, i + 1)

\* ModuleDetail.MarshalJSON of a record whose Module is not nil.
MarshalJSON(m) ==
    <<T("{"), T("key"), Num(m.Key), T(",")>>
    \o MarshalFields(m.Variant, m.F, 1) \o <<T("}")>>

\* encoding/json's syntax check of one flat object.
ValidObject(b) ==
    /\ Len(b) >= 2 /\ b[1].t = "{" /\ b[Len(b)].t = "}"
    /\ LET inner == SubSeq(b, 2, Len(b) - 1)
       IN  \/ Len(inner) = 0
           \/ /\ Len(inner) % 3 = 2
              /\ \A i \in 1..Len(inner) :
                    CASE i % 3 = 1 -> IsName(inner[i])
                      [] i % 3 = 2 -> IsJSONValue(inner[i])
                      [] OTHER -> inner[i].t = ","

ZeroOf(type) ==
    CASE type = "int" -> IntV(0)
      [] type = "bool" -> BoolV(FALSE)
      [] type = "float" -> Fin(0)

\* The token encoding/json stores into a field of the given type, or none.
Fits(type, tok) ==
    IF type = "bool" THEN tok.t \in {"true", "false"} ELSE tok.t = "num"

Parse(type, tok) ==
    CASE type = "int" -> IntV(tok.n)
      [] type = "bool" -> BoolV(tok.t = "true")
      [] type = "float" -> Fin(tok.n)

\* json.Unmarshal(val, &struct): members the struct does not have are
\* skipped, fields without a member keep their zero value.
DecodeStruct(v, val) ==
    IF ~ValidObject(val) THEN [err |-> "ErrSyntax", F |-> <<>>]
    ELSE LET at(nm) == {i \in 2..(Len(val) - 2) : i % 3 = 2 /\ val[i].t = nm}
             last(nm) == CHOOSE i \in at(nm) : \A j \in at(nm) : j <= i
             fs == FieldsOf(v)
         IN  IF \E f \in 1..Len(fs) : \E i \in at(fs[f][1]) :
                   ~Fits(fs[f][2], val[i + 1])
                THEN [err |-> "ErrType", F |-> <<>>]
                ELSE [err |-> "nil",
                      F |-> [f \in 1..Len(fs) |->
                               IF at(fs[f][1]) = {} THEN ZeroOf(fs[f][2])
                               ELSE Parse(fs[f][2], val[last(fs[f][1]) + 1])]]

\* bytes.Contains(val, `"name":`)
Contains(val, nm) == \E i \in 1..Len(val) : val[i].t = nm

\* A switch that lets the last matching case win.
Match_LastWins(val, i) ==
    LET hits == {j \in i..Len(Variants) : Contains(val, Signature(Variants[j]))}
    IN  IF hits = {} THEN "none"
        ELSE Variants[CHOOSE j \in hits : \A h \in hits : h <= j]

\* The first struct whose signature member val contains, or "none".
RECURSIVE Match(_, _)
Match(val, i) ==
    IF i > Len(Variants) THEN "none"
    ELSE IF Contains(val, Signature(Variants[i])) THEN Variants[i]
    ELSE Match(val, i + 1)

\* ModuleDetail.UnmarshalJSON(b) on a record that held m before: the error
\* it returns and the record afterwards.
UnmarshalJSON(m, b) ==
    IF ~(Len(b) >= 2 /\ b[1].t = "{" /\ b[2].t = "key")
       THEN [err |-> "ErrNoKey", m |-> m]
    ELSE LET rest == SubSeq(b, 3, Len(b))
             commas == {i \in 1..Len(rest) : rest[i].t = ","}
         IN  IF commas = {} THEN [err |-> "ErrNoKey", m |-> m]
             ELSE LET i == CHOOSE c \in commas : \A d \in commas : c <= d
                      keyText == SubSeq(rest, 1, i - 1)
                      val == <<T("{")>> \o SubSeq(rest, i + 1, Len(rest))
                  IN  IF ~(Len(keyText) = 1 /\ keyText[1].t = "num")
                         THEN [err |-> "ErrAtoi", m |-> m]
                      ELSE IF keyText[1].n < 0 THEN [err |-> "ErrNoKey", m |-> m]
                      ELSE LET k == keyText[1].n
                               v == Match(val, 1)
                               keyed == [m EXCEPT !.Key = k]
                               d == DecodeStruct(v, val)
                           IN  IF v = "none" THEN [err |-> "nil", m |-> keyed]
                               ELSE IF d.err # "nil" THEN [err |-> d.err, m |-> keyed]
                               ELSE [err |-> "nil",
                                     m |-> [Key |-> k, Variant |-> v, F |-> d.F]]

\* Decoding the records w[i..] of a moduleInfo array into a new slice: each
\* record goes through UnmarshalJSON, and the first error ends the decoding.
RECURSIVE DecodeFrom(_, _, _)
DecodeFrom(w, i, acc) ==
    IF i > Len(w) THEN [err |-> "nil", entries |-> acc]
    ELSE LET u == UnmarshalJSON(NoDetail, w[i])
         IN  IF u.err # "nil" THEN [err |-> u.err, entries |-> Append(acc, u.m)]
             ELSE DecodeFrom(w, i + 1, Append(acc, u.m))

\* json.Decoder.Decode of a module_info body into a new ModResult: the
\* whole body is checked for syntax before anything is stored.
DecodeModResult(w) ==
    IF \E i \in 1..Len(w) : ~ValidObject(w[i])
       THEN [err |-> "ErrSyntax", entries |-> <<>>]
       ELSE DecodeFrom(w, 1, <<>>)

\* The inputs: module records with these keys and field values, and records
\* as a device may send them that no struct matches.
MaxRecords == 2
KeyVals == {0, 7}
IntVals == {IntV(-2), IntV(3)}
BoolVals == {BoolV(FALSE), BoolV(TRUE)}
FloatVals == {Fin(0), Fin(40), NaN, Inf(1)}
ValsOf(type) ==
    CASE type = "int" -> IntVals
      [] type = "bool" -> BoolVals
      [] type = "float" -> FloatVals

FieldVals(v) ==
    {F \in [1..Len(FieldsOf(v)) -> IntVals \cup BoolVals \cup FloatVals] :
        \A i \in 1..Len(FieldsOf(v)) : F[i] \in ValsOf(FieldsOf(v)[i][2])}

DetailsOf(v) == {[Key |-> k, Variant |-> v, F |-> F] : k \in KeyVals, F \in FieldVals(v)}
Details == UNION {DetailsOf(Variants[i]) : i \in 1..Len(Variants)}

UnknownShape(k) == <<T("{"), T("key"), Num(k), T(","), T("newSensor"), Num(1), T("}")>>
KeyOnly(k) == <<T("{"), T("key"), Num(k), T("}")>>
RawRecords == {UnknownShape(5), KeyOnly(5)}

\* A caller encodes its record and appends the text to the listing.
Marshal ==
    /\ result = NoResult /\ detail # NoDetail /\ Len(wire) < MaxRecords
    /\ wire' = Append(wire, MarshalJSON(detail))
    /\ UNCHANGED <<conn, snaps, round, pc, locals, session, detail, result>>

\* The device adds a record of its own to the listing.
Receive(b) ==
    /\ result = NoResult /\ b \in RawRecords /\ Len(wire) < MaxRecords
    /\ wire' = Append(wire, b)
    /\ UNCHANGED <<conn, snaps, round, pc, locals, session, detail, result>>

\* UnmarshalJSON is called on a single record text.
UnmarshalOne ==
    /\ result = NoResult /\ Len(wire) = 1
    /\ LET u == UnmarshalJSON(NoDetail, wire[1])
       IN  result' = [by |-> "UnmarshalJSON", err |-> u.err, entries |-> <<u.m>>]
    /\ UNCHANGED <<conn, snaps, round, pc, locals, session, detail, wire>>

\* The listing is decoded as the moduleInfo array of a module_info body.
DecodeListing ==
    /\ result = NoResult /\ Len(wire) >= 1
    /\ LET r == DecodeModResult(wire)
       IN  result' = [by |-> "Decode", err |-> r.err, entries |-> r.entries]
    /\ UNCHANGED <<conn, snaps, round, pc, locals, session, detail, wire>>

\* ModuleDetail.String on entry i of a successful decode: it calls
\* m.MarshalJSON, which calls m.Module.MarshalJSON.  On a nil Module that is
\* a method call on a nil interface: the goroutine panics and, nothing
\* recovering it, the process dies.  Otherwise the text is returned.
String(i) ==
    /\ ~crashed /\ result # NoResult /\ result.err = "nil" /\ result.by # "String"
    /\ i \in 1..Len(result.entries)
    /\ LET m == result.entries[i]
       IN  IF m.Variant = "none"
              THEN crashed' = TRUE /\ UNCHANGED <<wire, result>>
              ELSE /\ wire' = <<MarshalJSON(m)>>
                   /\ result' = [by |-> "String", err |-> "nil", entries |-> <<m>>]
                   /\ UNCHANGED crashed
    /\ UNCHANGED <<connected, moving, hasEnclosure, mu, snaps, round, pc, locals,
                   session, detail>>

\* Records as a device may send them, for the sniffing of the variant: key
\* 5 followed by the signature members named by s, each with a value of its
\* type, in the order of s.
MaxMembers == 3
SignatureNames == {Signature(Variants[i]) : i \in 1..Len(Variants)}
ValueOf(nm) ==
    IF nm \in {"isEnclosureDoorOpen", "isEmergencyStopped"} THEN T("true") ELSE Num(1)

MembersOf(s) ==
    [i \in 1..(3 * Len(s)) |->
        CASE i % 3 = 1 -> T(",")
          [] i % 3 = 2 -> T(s[(i + 1) \div 3])
          [] OTHER -> ValueOf(s[i \div 3])]

Record(k, s) == <<T("{"), T("key"), Num(k)>> \o MembersOf(s) \o <<T("}")>>

MemberOrders ==
    {s \in UNION {[1..n -> SignatureNames] : n \in 0..MaxMembers} :
        \A i, j \in 1..Len(s) : s[i] = s[j] => i = j}

\* A record without a key, and one whose key is not its first member.
NoKey == <<T("{"), T("newSensor"), Num(1), T("}")>>
KeyNotFirst == <<T("{"), T("laserPower"), Num(1), T(","), T("key"), Num(5), T("}")>>

SniffRecords ==
    {Record(5, s) : s \in MemberOrders}
    \cup {Record(-1, <<"laserPower">>), Record(-1, <<>>), Record(0, <<"spindleSpeed">>)}
    \cup {NoKey, KeyNotFirst, UnknownShape(5)}

\* UnmarshalJSON is called on a single record text, with a record the caller
\* already holds as its receiver.
UnmarshalOver ==
    /\ result = NoResult /\ Len(wire) = 1
    /\ LET u == UnmarshalJSON(detail, wire[1])
       IN  result' = [by |-> "UnmarshalOver", err |-> u.err, entries |-> <<u.m>>]
    /\ UNCHANGED <<conn, snaps, round, pc, locals, session, detail, wire>>

\* ------------------------------------------------------------------- Next
Gate(p) ==
    \/ WaitToMoveTry(p)
    \/ WaitToMoveRetry(p)
    \/ WaitToMoveCanceled(p)
    \/ StopMoving(p)

Wire(p) ==
    \/ DoCodeCheck(p)
    \/ \E ok \in BOOLEAN : DoCodePost(p, ok)
    \/ GoToOriginReadZ(p)
    \/ MoveToCache(p)
    \/ SnapCameraCheck(p)
    \/ \E ok \in BOOLEAN : SnapCapture(p, ok)
    \/ \E r \in {"ok", "status", "transport"} : SnapImage(p, r)

\* A Status round in which endpoint k may answer any body of B[k].
StatusRound(p, B) ==
    \/ StatusBegin(p)
    \/ \E k \in Kinds : \E d \in B[k] : QueryOk(p, k, d)
    \/ \E k \in Kinds : \E d \in B[k], partial \in BOOLEAN :
          QueryErr(p, k, partial, d)
    \/ StatusEnd(p)

CloseOp(p) ==
    \/ CloseBegin(p)
    \/ \E ok \in BOOLEAN : CloseEnd(p, ok)

\* The motion gate: any number of threads run the eight motion operations,
\* with contexts cancelled at any time, against Close.  The enclosure and
\* module endpoints answer one body each; the tool endpoint answers any.
GateBodies == [k \in Kinds |-> IF k = "tool" THEN ToolPayloads ELSE {1}]

Next ==
    \E p \in Threads :
        \/ \E o \in GatedOps, c \in BOOLEAN, a \in ZVals : CallGated(p, o, c, a)
        \/ CallOther(p, "Close")
        \/ \E power \in Powers : LaserSpotInvalid(p, power)
        \/ Cancel(p)
        \/ Return(p)
        \/ Gate(p)
        \/ Wire(p)
        \/ StatusRound(p, GateBodies)
        \/ CloseOp(p)

Spec == Init /\ [][Next]_vars

\* Status, readers and Close, with MoveTo and Step as the motion operations
\* that touch the snapshots; every endpoint answers any of its bodies.
AllBodies == [k \in Kinds |-> IF k = "tool" THEN ToolPayloads ELSE Payloads]

StatusOps == {"Status", "Close", "CurrentLocation"}
SnapshotMotionOps == {"MoveTo", "Step"}

NextStatus ==
    \E p \in Threads :
        \/ \E o \in StatusOps : CallOther(p, o)
        \/ \E o \in SnapshotMotionOps, a \in ZVals : CallGated(p, o, FALSE, a)
        \/ Return(p)
        \/ WaitToMoveTry(p)
        \/ WaitToMoveRetry(p)
        \/ StopMoving(p)
        \/ DoCodeCheck(p)
        \/ \E ok \in BOOLEAN : DoCodePost(p, ok)
        \/ MoveToCache(p)
        \/ StatusRound(p, AllBodies)
        \/ CloseOp(p)
        \/ CurrentLocation(p)
        \/ CurrentLocationEnd(p)

SpecStatus == Init /\ [][NextStatus]_vars

\* Arguments and preconditions: the operations that check something before
\* they do anything (LaserSpot, SnapAtJPEG, EncFan, EncLED), with Status
\* rounds that may set and clear the cached camera flag.
NextArgs ==
    \E p \in Threads :
        \/ \E c \in BOOLEAN : CallGated(p, "SnapAtJPEG", c, 0)
        \/ \E power \in PowerVals, c \in BOOLEAN : CallLaserSpot(p, power, c)
        \/ \E o \in EncOps, v \in Percents : CallEnc(p, o, v)
        \/ \E ok \in BOOLEAN : EncPost(p, ok)
        \/ CallOther(p, "Status")
        \/ Cancel(p)
        \/ Return(p)
        \/ Gate(p)
        \/ DoCodeCheck(p)
        \/ \E ok \in BOOLEAN : DoCodePost(p, ok)
        \/ SnapCameraCheck(p)
        \/ \E ok \in BOOLEAN : SnapCapture(p, ok)
        \/ \E r \in {"ok", "status", "transport"} : SnapImage(p, r)
        \/ StatusRound(p, GateBodies)

SpecArgs == Init /\ [][NextArgs]_vars

\* The select of Await.
AwaitStep(p) ==
    \/ AwaitTimer(p)
    \/ AwaitCanceled(p)

\* Cancellation at any time: threads call Home, MoveTo, SnapAtJPEG and Await
\* with contexts that are cancelled at any point of the call, before or
\* after the grant.
LateOps == {"Home", "MoveTo", "SnapAtJPEG"}

NextLate ==
    \E p \in Threads :
        \/ \E o \in LateOps, c \in BOOLEAN, a \in ZVals : CallGated(p, o, c, a)
        \/ \E status \in StatusVals, c \in BOOLEAN : CallAwait(p, status, c)
        \/ CancelAnytime(p)
        \/ Return(p)
        \/ Gate(p)
        \/ DoCodeCheck(p)
        \/ \E ok \in BOOLEAN : DoCodePost(p, ok)
        \/ MoveToCache(p)
        \/ SnapCameraCheck(p)
        \/ \E ok \in BOOLEAN : SnapCapture(p, ok)
        \/ \E r \in {"ok", "status", "transport"} : SnapImage(p, r)
        \/ AwaitRead(p)
        \/ AwaitStep(p)

SpecLate == Init /\ [][NextLate]_vars

\* Await against the refreshes: one thread awaits a status, with a context
\* that is cancelled at any time, while another calls Status again and again
\* and the machine reports any status.
Awaiter == 1
Refresher == 2
AwaitBodies == [k \in Kinds |-> IF k = "tool" THEN StatusPayloads ELSE {1}]

NextAwait ==
    \/ \E status \in StatusVals, c \in BOOLEAN : CallAwait(Awaiter, status, c)
    \/ CancelAnytime(Awaiter)
    \/ AwaitRead(Awaiter)
    \/ AwaitStep(Awaiter)
    \/ Return(Awaiter)
    \/ CallOther(Refresher, "Status")
    \/ StatusRound(Refresher, AwaitBodies)
    \/ Return(Refresher)

\* The scheduler runs every runnable goroutine and the requests of a round
\* are answered; sync.Mutex hands the lock to a goroutine that has waited for
\* it (starvation mode), so an Await that finds c.mu free again and again
\* gets it.
LiveAwait ==
    /\ Init /\ [][NextAwait]_vars
    /\ WF_vars(AwaitStep(Awaiter))
    /\ SF_vars(AwaitRead(Awaiter))
    /\ WF_vars(StatusRound(Refresher, AwaitBodies))

LiveOps == {"Home", "MoveTo"}

\* Waiters against Close: threads call Home and MoveTo with contexts that are
\* cancelled at any time, while one more goroutine closes the session.
NextWaiters ==
    \/ \E p \in Threads :
          \/ \E o \in LiveOps, c \in BOOLEAN, a \in ZVals : CallGated(p, o, c, a)
          \/ Cancel(p)
          \/ Return(p)
          \/ Gate(p)
          \/ DoCodeCheck(p)
          \/ \E ok \in BOOLEAN : DoCodePost(p, ok)
          \/ MoveToCache(p)
    \/ CallOther(Closer, "Close")
    \/ CloseOp(Closer)
    \/ Return(Closer)

SpecWaiters == Init /\ [][NextWaiters]_vars

\* The gate alone on a session that stays connected, with contexts that are
\* never cancelled: threads call Home and MoveTo again and again.

\* A step of the operation thread p is running (not its caller's steps).
Progress(p) ==
    \/ WaitToMoveTry(p)
    \/ WaitToMoveRetry(p)
    \/ StopMoving(p)
    \/ DoCodeCheck(p)
    \/ \E ok \in BOOLEAN : DoCodePost(p, ok)
    \/ MoveToCache(p)

NextLive ==
    \E p \in Threads :
        \/ \E o \in LiveOps, a \in ZVals : CallGated(p, o, FALSE, a)
        \/ Return(p)
        \/ Progress(p)

\* The Go scheduler runs every runnable goroutine: an operation that can
\* take a step eventually takes one.  Nothing obliges a caller to call.
LiveSpec == Init /\ [][NextLive]_vars /\ \A p \in Threads : WF_vars(Progress(p))

\* The public API around the gate: threads call Home and MoveTo, with
\* contexts that are never cancelled, and the exported NowMoving.
NextPublic ==
    \E p \in Threads :
        \/ \E o \in LiveOps, a \in ZVals : CallGated(p, o, FALSE, a)
        \/ \E b \in BOOLEAN : NowMoving(p, b)
        \/ Return(p)
        \/ Progress(p)

SpecPublic == Init /\ [][NextPublic]_vars

\* The life of a session: NewConn, the poller it starts, and a caller that
\* uses the Conn NewConn returned (Close, CurrentLocation, ToolHead, MoveTo).
InitConn ==
    /\ connected = FALSE
    /\ moving = FALSE
    /\ hasEnclosure = FALSE
    /\ mu = NoOne
    /\ encState = 0
    /\ modState = 0
    /\ toolState = EmptyTool
    /\ q = NoRound
    /\ resp = NoResp
    /\ roundOwner = NoOne
    /\ crashed = FALSE
    /\ pc = [p \in AllThreads |-> "idle"]
    /\ op = [p \in AllThreads |-> "none"]
    /\ ctxDone = [p \in AllThreads |-> FALSE]
    /\ idx = [p \in AllThreads |-> 0]
    /\ arg = [p \in AllThreads |-> 0]
    /\ statusArg = [p \in AllThreads |-> ""]
    /\ powerArg = [p \in AllThreads |-> NoPower]
    /\ err = [p \in AllThreads |-> "nil"]
    /\ waited = [p \in AllThreads |-> FALSE]
    /\ made = FALSE
    /\ modList = 0
    /\ once = FALSE
    /\ pollErr = "nil"
    /\ pollCtx = FALSE
    /\ done = FALSE
    /\ ncRet = NoRet
    /\ conRes = NoAnswer
    /\ fixed = NoFixed
    /\ detail = NoDetail
    /\ wire = <<>>
    /\ result = NoResult

\* One caller: it never finds the gate busy, so the retry wait of waitToMove
\* is no part of this specification.
Callers == {1}
ConnOps == {"Close", "CurrentLocation"}

PollerStep ==
    \/ \E ok, partial \in BOOLEAN, d \in Payloads : PollModListing(ok, partial, d)
    \/ StatusRound(Poller, GateBodies)
    \/ PollDeliver
    \/ PollCheck
    \/ PollTimer
    \/ PollExit

NextConn ==
    \/ \E token \in Tokens, a \in ConnectAnswers : NewConnPost(token, a)
    \/ NewConnCheck
    \/ NewConnReturn
    \/ CancelPoll
    \/ PollerStep
    \/ \E p \in Callers :
          \/ ncRet.c /\ \E o \in ConnOps : CallOther(p, o)
          \/ ncRet.c /\ \E key \in ToolKeys : ToolHead(p, key)
          \/ ncRet.c /\ \E a \in ZVals : CallGated(p, "MoveTo", FALSE, a)
          \/ Return(p)
          \/ WaitToMoveTry(p)
          \/ StopMoving(p)
          \/ DoCodeCheck(p)
          \/ \E ok \in BOOLEAN : DoCodePost(p, ok)
          \/ MoveToCache(p)
          \/ CloseOp(p)
          \/ CurrentLocation(p)
          \/ CurrentLocationEnd(p)

SpecConn == InitConn /\ [][NextConn]_vars

\* The module codec on its own: no session exists; a record is drawn and a
\* listing of at most MaxRecords texts is built from it and from records of
\* the device, then decoded.
InitCodec ==
    /\ connected = FALSE
    /\ moving = FALSE
    /\ hasEnclosure = FALSE
    /\ mu = NoOne
    /\ encState = 0
    /\ modState = 0
    /\ toolState = EmptyTool
    /\ q = NoRound
    /\ resp = NoResp
    /\ roundOwner = NoOne
    /\ crashed = FALSE
    /\ pc = [p \in AllThreads |-> "idle"]
    /\ op = [p \in AllThreads |-> "none"]
    /\ ctxDone = [p \in AllThreads |-> FALSE]
    /\ idx = [p \in AllThreads |-> 0]
    /\ arg = [p \in AllThreads |-> 0]
    /\ statusArg = [p \in AllThreads |-> ""]
    /\ powerArg = [p \in AllThreads |-> NoPower]
    /\ err = [p \in AllThreads |-> "nil"]
    /\ waited = [p \in AllThreads |-> FALSE]
    /\ made = FALSE
    /\ modList = 0
    /\ once = FALSE
    /\ pollErr = "nil"
    /\ pollCtx = FALSE
    /\ done = FALSE
    /\ ncRet = NoRet
    /\ conRes = NoAnswer
    /\ fixed = NoFixed
    /\ detail \in Details
    /\ wire = <<>>
    /\ result = NoResult

NextCodec ==
    \/ Marshal
    \/ \E b \in RawRecords : Receive(b)
    \/ UnmarshalOne
    \/ DecodeListing

SpecCodec == InitCodec /\ [][NextCodec]_vars

\* The sniffing of the variant on its own: one record text of the device and
\* a record the caller holds, decoded by each of the three entries.
InitSniff ==
    /\ connected = FALSE
    /\ moving = FALSE
    /\ hasEnclosure = FALSE
    /\ mu = NoOne
    /\ encState = 0
    /\ modState = 0
    /\ toolState = EmptyTool
    /\ q = NoRound
    /\ resp = NoResp
    /\ roundOwner = NoOne
    /\ crashed = FALSE
    /\ pc = [p \in AllThreads |-> "idle"]
    /\ op = [p \in AllThreads |-> "none"]
    /\ ctxDone = [p \in AllThreads |-> FALSE]
    /\ idx = [p \in AllThreads |-> 0]
    /\ arg = [p \in AllThreads |-> 0]
    /\ statusArg = [p \in AllThreads |-> ""]
    /\ powerArg = [p \in AllThreads |-> NoPower]
    /\ err = [p \in AllThreads |-> "nil"]
    /\ waited = [p \in AllThreads |-> FALSE]
    /\ made = FALSE
    /\ modList = 0
    /\ once = FALSE
    /\ pollErr = "nil"
    /\ pollCtx = FALSE
    /\ done = FALSE
    /\ ncRet = NoRet
    /\ conRes = NoAnswer
    /\ fixed = NoFixed
    /\ detail \in Details \cup {NoDetail}
    /\ wire \in {<<b>> : b \in SniffRecords}
    /\ result = NoResult

NextSniff ==
    \/ UnmarshalOne
    \/ UnmarshalOver
    \/ DecodeListing

SpecSniff == InitSniff /\ [][NextSniff]_vars

\* Encoding what was decoded: records are decoded, into a new ModuleDetail or
\* over one the caller holds, and an entry of a decode that returned nil is
\* printed.
NextEncode ==
    \/ UnmarshalOne
    \/ UnmarshalOver
    \/ DecodeListing
    \/ \E i \in 1..MaxRecords : String(i)

SpecEncode == InitSniff /\ [][NextEncode]_vars

\* ================================================================= claims
\* A thread blocked in waitToMove because the gate was busy: in the retry
\* wait, or at the attempt that follows a retry wait.
Waiting(p) == pc[p] = "wait" \/ (pc[p] = "try" /\ waited[p])

\* Thread p leaves waitToMove in this step.
LeavesWaitToMove(p) == InWaitToMove(p) /\ ~InWaitToMove(p)'

\* C1: among concurrent motion operations at most one thread is between a
\* successful waitToMove and its stopMoving, and a thread is only there
\* while moving is set (so no waitToMove grants while another holds).
C1_MutualExclusion ==
    /\ \A p, r \in Threads : Holds(p) /\ Holds(r) => p = r
    /\ \A p \in Threads : Holds(p) => moving

\* C1 witness: one thread holds the gate while another was refused and waits.
C1_Witness ==
    \E p, r \in Threads : p # r /\ Holds(p) /\ pc[r] = "wait" /\ moving

\* C2: moving is set exactly while some motion operation holds the gate: an
\* operation that was granted has cleared it when it returns, on success and
\* on every error path, and a failed waitToMove leaves it as it was.
C2_ClearedOnEveryPath ==
    moving <=> \E p \in Threads : Holds(p)

\* C2 witness: a granted operation has returned a wire error and the gate is
\* free again.
C2_Witness ==
    \E p \in Threads :
        /\ pc[p] = "ret" /\ op[p] \in GatedOps /\ err[p] = "ErrWire"
        /\ ~moving

\* C3 as stated: a first attempt of waitToMove on a connected session with a
\* context that is already cancelled is not granted and leaves moving as it
\* is, whether moving is set or not.
C3_Original ==
    [][\A p \in Threads :
          (pc[p] = "try" /\ ~waited[p] /\ ctxDone[p] /\ connected
             /\ pc'[p] # "try")
          => (moving' = moving /\ pc'[p] \in {"wait", "ret"})]_vars

\* C3 amended: with an already cancelled context the first attempt is made
\* all the same: if the gate is busy waitToMove goes to its select and
\* returns ErrCanceled from there, without a retry and with moving unchanged;
\* if the gate is free it is granted (moving becomes true, nil returned).
C3_Amended ==
    [][\A p \in Threads :
          /\ (pc[p] = "try" /\ ~waited[p] /\ ctxDone[p] /\ connected
                /\ pc'[p] # "try")
             => IF moving
                   THEN pc'[p] = "wait" /\ moving'
                   ELSE moving' /\ (Holds(p))' /\ err'[p] = "nil"
          /\ (pc[p] = "wait" /\ ~waited[p] /\ ctxDone[p] /\ pc'[p] # "wait")
             => (pc'[p] = "ret" /\ err'[p] = "ErrCanceled"
                   /\ moving' = moving)]_vars

\* C3 witness: a call whose context was cancelled before its first attempt
\* has returned ErrCanceled without a retry, the gate still held by another.
C3_Witness ==
    \E p, r \in Threads :
        /\ pc[p] = "ret" /\ err[p] = "ErrCanceled" /\ ~waited[p]
        /\ Holds(r) /\ moving

\* C4 as stated: a waiter whose context is cancelled leaves waitToMove with
\* ErrCanceled, one whose session got disconnected with ErrNotConnected
\* (either error when both happened), and in both cases moving is untouched.
C4_Original ==
    [][\A p \in Threads :
          (Waiting(p) /\ LeavesWaitToMove(p) /\ (ctxDone[p] \/ ~connected))
          => /\ pc'[p] = "ret"
             /\ moving' = moving
             /\ err'[p] \in {"ErrCanceled", "ErrNotConnected"}
             /\ (connected => err'[p] = "ErrCanceled")
             /\ (~ctxDone[p] => err'[p] = "ErrNotConnected")]_vars

\* C4 amended: a waiter returns ErrCanceled only from its retry wait, and
\* from there whenever its context is cancelled (it does not retry then);
\* at an attempt it returns ErrNotConnected if the session is disconnected
\* and is otherwise granted the gate if it is free, cancelled context or
\* not.  Whenever it returns an error, moving is as it was.
C4_Amended ==
    [][\A p \in Threads :
          /\ (pc[p] = "wait" /\ pc'[p] = "try") => ~ctxDone[p]
          /\ (Waiting(p) /\ LeavesWaitToMove(p))
             => IF pc[p] = "wait"
                   THEN /\ ctxDone[p]
                        /\ pc'[p] = "ret" /\ err'[p] = "ErrCanceled"
                        /\ moving' = moving
                ELSE IF ~connected
                   THEN /\ pc'[p] = "ret" /\ err'[p] = "ErrNotConnected"
                        /\ moving' = moving
                   ELSE ~moving /\ moving' /\ (Holds(p))']_vars

\* C4 witness: a waiter has returned ErrNotConnected after a Close, while
\* the holder it waited for still holds the gate.
C4_Witness ==
    \E p, r \in Threads :
        /\ pc[p] = "ret" /\ err[p] = "ErrNotConnected" /\ waited[p]
        /\ Holds(r) /\ moving /\ ~connected

\* C5 as stated: every caller blocked in waitToMove is eventually granted.
C5_Original ==
    \A p \in Threads : (pc[p] = "wait") ~> Holds(p)

\* C5 amended: a caller blocked in waitToMove is eventually granted if the
\* other callers eventually stop holding the gate; callers that keep
\* re-acquiring it can starve the waiter.
C5_Amended ==
    \A p \in Threads :
        (<>[](\A r \in Threads \ {p} : ~Holds(r)))
        => ((pc[p] = "wait") ~> Holds(p))

\* C5 witness: the holder has released and the waiter is at the retry that
\* will grant it the gate.
C5_Witness ==
    \E p \in Threads :
        /\ pc[p] = "try" /\ waited[p] /\ ~moving /\ connected
        /\ \A r \in Threads : ~Holds(r)

\* The snapshot of endpoint k.
Snap(k) == IF k = "enc" THEN encState ELSE IF k = "mod" THEN modState ELSE toolState

\* Thread p has returned from a Status call and the outcome of its round
\* (q, resp) is still on record.
Returned(p) == pc[p] = "ret" /\ op[p] = "Status" /\ roundOwner = p

\* A round has updated one snapshot while another query of it is under way.
PartialRound == \E j, k \in Kinds : q[j] = "ok" /\ q[k] = "sent"

\* C6: whatever the outcomes of the three queries and the order they
\* finished in, Status returns the enclosure error if the enclosure query
\* failed, else the module error if the module query failed, else the tool
\* query's result.
C6_StatusPriority ==
    \A p \in Threads :
        Returned(p) =>
            err[p] = CASE q["enc"] = "err" -> "ErrEnc"
                       [] q["enc"] # "err" /\ q["mod"] = "err" -> "ErrMod"
                       [] q["enc"] # "err" /\ q["mod"] # "err" /\ q["tool"] = "err"
                            -> "ErrTool"
                       [] OTHER -> "nil"

\* C6 witness: the enclosure and the tool query failed, the module query
\* succeeded, and Status returned the enclosure error.
C6_Witness ==
    \E p \in Threads :
        /\ Returned(p) /\ err[p] = "ErrEnc"
        /\ q["enc"] = "err" /\ q["mod"] = "ok" /\ q["tool"] = "err"

\* C7: a query that finishes changes no snapshot but its own, a query that
\* succeeds leaves the body it fetched in its own snapshot, and the bodies
\* fetched by the successful queries are in the snapshots when Status
\* returns, whatever it returns.
C7_OwnSnapshotOnly ==
    [][/\ \A k \in Kinds :
             (q[k] = "sent" /\ q'[k] # "sent")
             => /\ q'[k] = "ok" => (Snap(k))' = resp'[k]
                /\ \A j \in Kinds \ {k} : (Snap(j))' = Snap(j)
       /\ \A p \in Threads :
             (pc[p] = "st_round" /\ pc'[p] # "st_round")
             => \A k \in Kinds : q[k] = "ok" => (Snap(k))' = resp[k]]_vars

\* C7 witness: Status has returned the enclosure error and modState holds
\* the body the module query fetched in that round (a new one).
C7_Witness ==
    \E p \in Threads :
        /\ Returned(p) /\ err[p] = "ErrEnc"
        /\ q["mod"] = "ok" /\ modState = resp["mod"] /\ modState = 2

\* C8 as stated: when Status has returned, no query of the round is still
\* running and every queried snapshot was written from a request of that
\* round.
C8_Original ==
    \A p \in Threads :
        Returned(p) => \A k \in Queried(hasEnclosure) : q[k] = "ok"

\* C8 amended: a query runs only while the Status call that started it holds
\* the lock and has not returned; when Status has returned, every queried
\* endpoint has either failed or succeeded, and the snapshot of one that
\* succeeded holds the body fetched in that round (toolState up to the Z a
\* later MoveTo stored).
C8_Amended ==
    /\ \A k \in Kinds :
          q[k] = "sent"
          => /\ roundOwner \in Threads
             /\ pc[roundOwner] = "st_round" /\ mu = roundOwner
    /\ \A p \in Threads :
          Returned(p)
          => /\ \A k \in Kinds :
                   q[k] \in (IF k \in Queried(hasEnclosure)
                               THEN {"ok", "err"} ELSE {"none"})
             /\ q["enc"] = "ok" => encState = resp["enc"]
             /\ q["mod"] = "ok" => modState = resp["mod"]
             /\ q["tool"] = "ok"
                => toolState.LaserCamera = resp["tool"].LaserCamera

\* C8 witness: Status has returned after a round in which a query failed and
\* the two others succeeded.
C8_Witness ==
    \E p \in Threads :
        /\ Returned(p) /\ mu = NoOne
        /\ q["enc"] = "err" /\ q["mod"] = "ok" /\ q["tool"] = "ok"

\* C9: a round queries the tool and the module endpoint, and the enclosure
\* endpoint exactly if hasEnclosure; without an enclosure encState keeps
\* its initial value and no thread ever holds an enclosure error.
C9_EnclosureOnlyIfPresent ==
    /\ \A p \in Threads :
          pc[p] = "st_round"
          => /\ q["tool"] # "none" /\ q["mod"] # "none"
             /\ q["enc"] # "none" <=> hasEnclosure
    /\ ~hasEnclosure
          => /\ encState = 0
             /\ \A p \in Threads : err[p] # "ErrEnc"

\* C9 witness: on a session without enclosure a round has finished with the
\* tool and module queries done and no enclosure query.
C9_Witness ==
    \E p \in Threads :
        /\ ~hasEnclosure /\ Returned(p)
        /\ q["tool"] = "ok" /\ q["mod"] = "ok" /\ q["enc"] = "none"
        /\ encState = 0

\* C10 as stated: when a round has updated one snapshot and not yet another,
\* a reader that asks for the session lock gets it and reads that state.
C10_Original ==
    \A r \in Threads :
        (pc[r] = "rd_lock" /\ PartialRound) => ENABLED CurrentLocation(r)

\* C10 amended: a reader holding the session lock never sees a round under
\* way: its read happens when no query is running, so before the round
\* started or after Status returned.
C10_Amended ==
    [][\A r \in Threads :
          (pc[r] = "rd_lock" /\ pc'[r] # "rd_lock")
          => (AllDone(q) /\ ~PartialRound /\ mu = NoOne)]_vars

\* C10 witness: a reader is kept waiting for the lock by a round that has
\* updated one snapshot and not yet another.
C10_Witness ==
    \E r \in Threads :
        pc[r] = "rd_lock" /\ PartialRound /\ mu # NoOne

\* The shared session state the lock is there for.
Shared == <<connected, moving, encState, modState, toolState>>

\* Thread p has returned from ToolHead.
ToolHeadDone(p) == pc[p] = "ret" /\ op[p] = "ToolHead"

\* Every step that writes connected, moving or a snapshot while a thread
\* holds c.mu over several steps is a step of that holder: a query of its
\* Status round writing a snapshot, or its Close storing connected.
WritesUnderLock ==
    (mu # NoOne /\ Shared' # Shared)
    => IF pc[mu] = "st_round"
          THEN q' # q /\ roundOwner = mu /\ connected' = connected /\ moving' = moving
          ELSE /\ pc[mu] = "cl_post" /\ pc'[mu] = "ret"
               /\ UNCHANGED <<moving, snaps>>

\* C11 as stated: writes of the shared state happen under the lock, the
\* module listing is written under the lock, and ToolHead reads it under
\* the lock, so only at a moment nobody else holds c.mu.
C11_Original ==
    [][/\ WritesUnderLock
       /\ \A p \in Callers :
             (pc[p] = "idle" /\ ToolHeadDone(p)') => mu = NoOne]_vars

\* C11 amended: connected, moving, encState, modState and toolState are
\* written only by the holder of c.mu, and the locked readers read when
\* nobody else holds it; modList is written by the poller alone, before
\* NewConn has returned the Conn, and never afterwards, so that ToolHead's
\* read of it (which takes no lock) never meets a write.
C11_Amended ==
    [][/\ WritesUnderLock
       /\ \A p \in Callers :
             (pc[p] = "rd_lock" /\ pc'[p] # "rd_lock") => mu = NoOne
       /\ modList' # modList => (ncRet = NoRet /\ pc[Poller] = "p_list")
       /\ \A p \in Callers :
             (pc[p] = "idle" /\ ToolHeadDone(p)')
             => (ncRet.c /\ modList' = modList /\ pc[Poller] # "p_list")]_vars

\* C11 witness: ToolHead has returned while the poller's Status round holds
\* c.mu, and a caller's MoveTo has stored into toolState before.
C11_Witness ==
    \E p \in Callers :
        /\ ToolHeadDone(p) /\ mu = Poller /\ pc[Poller] = "st_round"
        /\ toolState.Z = 1 /\ modList # 0

\* The connect POST was answered with a body that decodes.
Answered == conRes # NoAnswer /\ conRes.a.transport /\ conRes.a.ok200 /\ conRes.a.json

\* No session exists: no Conn, no poller, nothing fetched.
NoSession ==
    /\ ~made /\ ~connected /\ pc[Poller] = "idle" /\ ~once
    /\ modList = 0 /\ encState = 0 /\ modState = 0 /\ toolState = EmptyTool

\* C12: an answer that echoes another token makes NewConn return
\* (nil, ErrInvalidToken), and one that echoes the token but names another
\* series makes it return (nil, unsupported series); neither builds a Conn
\* nor starts the poller.
C12_HandshakeRejection ==
    /\ (Answered /\ conRes.a.Token # conRes.token)
       => /\ NoSession
          /\ ncRet \in {NoRet, [c |-> FALSE, err |-> "ErrInvalidToken"]}
    /\ (Answered /\ conRes.a.Token = conRes.token
                 /\ conRes.a.Series # SupportedSeries)
       => /\ NoSession
          /\ ncRet \in {NoRet, [c |-> FALSE, err |-> "ErrSeries"]}
    /\ ncRet.err \in {"ErrInvalidToken", "ErrSeries"} => ~ncRet.c /\ NoSession

\* C12 witness: NewConn has returned ErrInvalidToken on an answer whose
\* series is the supported one.
C12_Witness ==
    /\ Answered /\ conRes.a.Series = SupportedSeries
    /\ ncRet = [c |-> FALSE, err |-> "ErrInvalidToken"]

\* C13: when NewConn has returned a nil error, once is closed and the module
\* listing and every snapshot the session queries have been filled.
C13_FirstReadPopulated ==
    (ncRet.c /\ ncRet.err = "nil")
    => /\ once /\ pc[Poller] \notin {"idle", "p_list"}
       /\ modList # 0 /\ modState # 0 /\ toolState # EmptyTool
       /\ hasEnclosure => encState # 0

\* C13 witness: NewConn has returned nil on a session with an enclosure and
\* the poller is in its wait after the first refresh.
C13_Witness ==
    /\ ncRet = [c |-> TRUE, err |-> "nil"] /\ hasEnclosure
    /\ encState # 0 /\ pc[Poller] = "p_wait"

\* C14 as stated: a first refresh that fails is handed to the caller of
\* NewConn and the process is not terminated.
C14_Original == (made /\ once /\ pollErr # "nil") => ~crashed

\* C15 as stated: after a successful Close the poller ends without ending
\* the process: it never dies of finding the session closed.
C15_Original == ~(pc[Poller] = "p_fatal" /\ err[Poller] = "ErrNotConnected")

\* C16: a Close that finds the session disconnected returns
\* ErrNotConnected and changes nothing, and no disconnect request is under
\* way on a disconnected session.
C16_CloseWhenClosed ==
    [][\A p \in Threads :
          /\ (pc[p] = "cl_lock" /\ pc'[p] # "cl_lock" /\ ~connected)
             => /\ pc'[p] = "ret" /\ err'[p] = "ErrNotConnected"
                /\ UNCHANGED <<conn, snaps, session>>
          /\ pc'[p] = "cl_post" => connected']_vars

\* C16 witness: a Close has returned ErrNotConnected on a session that an
\* earlier Close disconnected.
C16_Witness ==
    \E p \in Threads :
        /\ pc[p] = "ret" /\ op[p] = "Close" /\ err[p] = "ErrNotConnected"
        /\ ~connected /\ mu = NoOne

\* C17: after a refresh that succeeded the poller waits; from the wait it
\* goes on to the next refresh while its ctx is live, and once the ctx is
\* cancelled (during the wait or during the refresh before it) the wait can
\* only end in the poller's exit, which it then can take; no refresh starts
\* after the exit.
C17_PollerLoop ==
    [][/\ (pc[Poller] = "p_chk" /\ pc'[Poller] # "p_chk" /\ err[Poller] = "nil")
          => pc'[Poller] = "p_wait"
       /\ (pc[Poller] = "p_wait" /\ ~crashed)
          => IF pollCtx
                THEN ENABLED PollExit /\ pc'[Poller] \in {"p_wait", "p_exit"}
                ELSE ENABLED PollTimer /\ pc'[Poller] \in {"p_wait", "st_lock"}
       /\ (pc'[Poller] = "st_lock" /\ pc[Poller] # "st_lock")
          => (pc[Poller] = "p_list" \/ (pc[Poller] = "p_wait" /\ ~pollCtx))
       /\ pc[Poller] = "p_exit" => pc'[Poller] = "p_exit"]_vars

\* C17 witness: the poller has left its loop after a first refresh that
\* succeeded, its ctx cancelled.
C17_Witness ==
    /\ pc[Poller] = "p_exit" /\ pollCtx /\ once /\ pollErr = "nil"
    /\ modState # 0

\* C18 as stated: a refresh that fails after the first one succeeded does
\* not end the process.
C18_Original ==
    ~(/\ pc[Poller] = "p_fatal" /\ once /\ pollErr = "nil"
      /\ err[Poller] \in {"ErrEnc", "ErrMod", "ErrTool"})

\* UnmarshalJSON has been applied to the text MarshalJSON made of detail.
RoundTripped ==
    result.by = "UnmarshalJSON" /\ wire = <<MarshalJSON(detail)>>

\* Every float64 field of record m is a finite number.
FiniteFields(m) == \A i \in 1..Len(m.F) : m.F[i].k \notin {"nan", "inf"}

\* C19 as stated: for every record of a recognized variant, with a key that
\* is not negative and any field values, decoding its encoding succeeds and
\* gives the record back.
C19_Original ==
    RoundTripped => (result.err = "nil" /\ result.entries = <<detail>>)

\* C19 amended: the round trip gives the record back when its float64
\* fields are finite; the encoding of a NaN or an infinity is no JSON and
\* decoding it fails, the key decoded and no Module stored.
C19_Amended ==
    RoundTripped
    => IF FiniteFields(detail)
          THEN result.err = "nil" /\ result.entries = <<detail>>
          ELSE /\ result.err = "ErrSyntax"
               /\ result.entries = <<[NoDetail EXCEPT !.Key = detail.Key]>>

\* C19 witness: an enclosure record with key 7 has come back from the
\* round trip as it went in.
C19_Witness ==
    /\ RoundTripped /\ detail.Variant = "Enclosure" /\ detail.Key = 7
    /\ detail.F[2] = IntV(-2) /\ detail.F[5] = BoolV(TRUE)
    /\ result.err = "nil" /\ result.entries = <<detail>>

\* The key a record text carries after its opening.
KeyIn(b) == b[3].n

\* C20 as stated: decoding a listing of well-formed records with keys that
\* are not negative returns no error and one entry per record, in order,
\* with the record's key, and a nil Module for a record no struct matches,
\* a record with nothing but its key included.
C20_Original ==
    (result.by = "Decode" /\ \A i \in 1..Len(wire) : ValidObject(wire[i]))
    => /\ result.err = "nil"
       /\ Len(result.entries) = Len(wire)
       /\ \A i \in 1..Len(wire) :
             /\ result.entries[i].Key = KeyIn(wire[i])
             /\ Match(wire[i], 1) = "none" => result.entries[i].Variant = "none"

\* What does hold of a listing in which every record has a member after its
\* key: the unknown shape is kept with its key and a nil Module.
UnknownShapeTolerated ==
    (/\ result.by = "Decode"
     /\ \A i \in 1..Len(wire) : ValidObject(wire[i]) /\ wire[i] # KeyOnly(KeyIn(wire[i])))
    => /\ result.err = "nil"
       /\ Len(result.entries) = Len(wire)
       /\ \A i \in 1..Len(wire) :
             /\ result.entries[i].Key = KeyIn(wire[i])
             /\ Match(wire[i], 1) = "none" => result.entries[i].Variant = "none"

\* The member names of a record text.
Names(b) == {b[i].t : i \in {j \in 1..Len(b) : IsName(b[j])}}

\* The variant the specification selects for a record with these members.
Priority(S) ==
    IF "laserPower" \in S THEN "Laser"
    ELSE IF "isEnclosureDoorOpen" \in S THEN "Enclosure"
    ELSE IF "isEmergencyStopped" \in S THEN "EmergencyStop"
    ELSE IF "quickSwapState" \in S THEN "QuickSwap"
    ELSE IF "bracingKitState" \in S THEN "BracingKit"
    ELSE IF "spindleSpeed" \in S THEN "CNC"
    ELSE "none"

\* A record text that opens with a key that is not negative and has a
\* member after it.
Keyed(b) == Len(b) > 4 /\ b[2].t = "key" /\ b[3].t = "num" /\ b[3].n >= 0

\* One record text has been decoded, by a direct call or as a listing.
Sniffed == result.by \in {"UnmarshalJSON", "UnmarshalOver", "Decode"}

\* C21: the variant decoded from a record is fixed by the set of signature
\* members present, whatever their order: Laser if laserPower is there,
\* else Enclosure if isEnclosureDoorOpen, else EmergencyStop if
\* isEmergencyStopped, else QuickSwap if quickSwapState, else BracingKit if
\* bracingKitState, else CNC if spindleSpeed; with none of them a record
\* decoded into a new value has no payload.
C21_VariantPriority ==
    (Sniffed /\ Keyed(wire[1]))
    => /\ result.err = "nil"
       /\ LET v == Priority(Names(wire[1]))
          IN  (v # "none" \/ result.by # "UnmarshalOver")
              => result.entries[1].Variant = v

\* C21 witness: a record listing spindleSpeed, quickSwapState and laserPower
\* in that order was decoded over a CNC record and is a Laser record.
C21_Witness ==
    /\ result.by = "UnmarshalOver" /\ detail.Variant = "CNC"
    /\ wire = <<Record(5, <<"spindleSpeed", "quickSwapState", "laserPower">>)>>
    /\ result.err = "nil" /\ result.entries[1].Variant = "Laser"
    /\ result.entries[1].Key = 5

\* A record text has a key member with a number, and that number.
HasKey(b) == \E i \in 2..(Len(b) - 1) : b[i].t = "key" /\ b[i + 1].t = "num"
KeyValue(b) == b[(CHOOSE i \in 2..(Len(b) - 1) : b[i].t = "key") + 1].n

\* The record the decode was given as its receiver.
Receiver == IF result.by = "UnmarshalOver" THEN detail ELSE NoDetail

\* C22 as stated: UnmarshalJSON rejects a record without a key or with a
\* negative key with ErrNoKey and leaves its receiver as it was, and never
\* rejects with ErrNoKey a record whose key is an integer that is not
\* negative.
C22_Original ==
    result.by \in {"UnmarshalJSON", "UnmarshalOver"}
    => /\ (~HasKey(wire[1]) \/ KeyValue(wire[1]) < 0)
          => result.err = "ErrNoKey" /\ result.entries = <<Receiver>>
       /\ (HasKey(wire[1]) /\ KeyValue(wire[1]) >= 0)
          => result.err # "ErrNoKey"

\* What does hold: the rejection of a missing or negative key, and the
\* acceptance of a key that opens the record and has a member after it.
KeyRejection ==
    result.by \in {"UnmarshalJSON", "UnmarshalOver"}
    => /\ (~HasKey(wire[1]) \/ KeyValue(wire[1]) < 0)
          => result.err = "ErrNoKey" /\ result.entries = <<Receiver>>
       /\ Keyed(wire[1]) => result.err # "ErrNoKey"

\* C30 as stated: decoding a record of a shape no struct matches leaves the
\* receiver with its key and no payload, whatever payload it held before.
C30_Original ==
    (/\ result.by \in {"UnmarshalJSON", "UnmarshalOver"}
     /\ Keyed(wire[1]) /\ Priority(Names(wire[1])) = "none")
    => /\ result.err = "nil"
       /\ result.entries[1].Key = KeyValue(wire[1])
       /\ result.entries[1].Variant = "none"

\* What does hold: the key is stored and the payload is the one the
\* receiver held before.
UnknownShapeKeepsPayload ==
    (/\ result.by \in {"UnmarshalJSON", "UnmarshalOver"}
     /\ Keyed(wire[1]) /\ Priority(Names(wire[1])) = "none")
    => /\ result.err = "nil"
       /\ result.entries = <<[Receiver EXCEPT !.Key = KeyValue(wire[1])]>>

\* C23: the lines of a motion operation go out one at a time and in order,
\* each at most once: a POST is issued only for the line doCode has just
\* checked, the first line follows the grant, the next line follows only a
\* POST that succeeded, and the first line that fails (refused because the
\* session is disconnected, or failed on the wire) ends the sequence: no
\* further line is sent and the operation returns that error after its
\* release.
C23_FailFast ==
    [][\A p \in Threads :
          /\ (pc'[p] = "post" /\ pc[p] # "post")
             => /\ pc[p] = "code" /\ idx'[p] = idx[p]
                /\ idx[p] \in 1..Len(Codes(op[p], arg[p]))
          /\ (pc'[p] = "code" /\ pc[p] # "code")
             => IF pc[p] = "post"
                   THEN err[p] = "nil" /\ err'[p] = "nil" /\ idx'[p] = idx[p] + 1
                   ELSE pc[p] \in {"try", "z"} /\ idx'[p] = 1
          /\ (pc[p] \in {"code", "post"} /\ err'[p] # "nil")
             => pc'[p] = "release" /\ idx'[p] = idx[p]
          /\ (pc[p] = "release" /\ pc'[p] # "release")
             => pc'[p] \in {"ret", "image"} /\ err'[p] = err[p]]_vars

\* C23 witness: Home has returned the error of its first line and never
\* sent the second; a Step has failed on its second line.
C23_Witness ==
    \E p, r \in Threads :
       /\ op[p] = "Home" /\ pc[p] = "ret" /\ err[p] = "ErrWire" /\ idx[p] = 1
       /\ op[r] = "Step" /\ pc[r] = "release" /\ err[r] = "ErrWire" /\ idx[r] = 2

\* C29 as stated: from SnapAtJPEG's capture request until its image fetch
\* has been made, no gated operation of another caller is at a wire call.
C29_Original ==
    \A p, r \in Threads :
       (p # r /\ op[p] = "SnapAtJPEG" /\ pc[p] \in {"release", "image"})
       => pc[r] \notin {"post", "capture"}

\* What does hold: the exclusion lasts until SnapAtJPEG's stopMoving.
CaptureExclusive ==
    \A p, r \in Threads :
       (p # r /\ op[p] = "SnapAtJPEG" /\ pc[p] \in {"capture", "release"})
       => pc[r] \notin {"post", "capture"}

\* C25: once NewConn has returned the Conn, no step of any operation, of
\* the poller or of Close changes c.url, c.token, c.readOnly, c.headType or
\* c.hasEnclosure.
C25_ImmutableAfterNewConn ==
    [][ncRet.c => (fixed' = fixed /\ hasEnclosure' = hasEnclosure)]_vars

\* C25 witness: the session of a read-only connection with token t2 and an
\* enclosure has been refreshed, moved and closed, and the five fields are
\* what NewConn stored.
C25_Witness ==
    /\ ncRet.c /\ ~connected /\ op[1] = "Close" /\ pc[1] = "ret" /\ err[1] = "nil"
    /\ toolState.Z = -1 /\ encState # 0
    /\ fixed = [url |-> URL, token |-> "t2", readOnly |-> TRUE, headType |-> 1]
    /\ hasEnclosure /\ conRes.a.HasEnclosure /\ conRes.a.ReadOnly

\* C26: while CurrentLocation is copying, the cached tool state is the one
\* its first read saw: no MoveTo and no Status refresh stores into it
\* between the reads, so the six values it returns are those of one state.
C26_ConsistentAtRead ==
    \A p \in Threads :
       pc[p] = "rd_read" => (mu = p /\ arg[p] = toolState.Z)

\* C26 witness: a CurrentLocation is in the middle of its copy while a MoveTo
\* holds a target that differs from the cached Z and is about to store it.
C26_Witness ==
    \E p, r \in Threads :
       /\ pc[p] = "rd_read" /\ arg[p] = toolState.Z
       /\ op[r] = "MoveTo" /\ pc[r] = "cache" /\ arg[r] # toolState.Z

\* An operation of thread p is refused in this step with error e: it returns
\* at once and the session is as it was.
Refused(p, e) ==
    /\ pc'[p] = "ret" /\ err'[p] = e
    /\ UNCHANGED <<conn, snaps>>

\* A float64 that lies in the interval [lo, hi].
Within(x, lo, hi) == x.k = "fin" /\ lo <= x.n /\ x.n <= hi

\* C27 as stated: a LaserSpot whose power is outside [0, 1.5] and an EncFan
\* or EncLED whose percentage is outside [0, 100] return ErrInvalid, and a
\* SnapAtJPEG that reads a false camera flag returns ErrNoCamera, in the
\* very step of the check: no wire call is reached, the gate is not asked
\* for, and connected, moving and the snapshots are unchanged.
C27_Original ==
    [][\A p \in Threads :
          /\ (pc[p] = "idle" /\ op'[p] = "LaserSpot" /\ ~Within(powerArg'[p], 0, 15))
             => Refused(p, "ErrInvalid")
          /\ (pc[p] = "idle" /\ op'[p] \in EncOps /\ (arg'[p] < 0 \/ arg'[p] > 100))
             => Refused(p, "ErrInvalid")
          /\ (pc[p] = "cam" /\ pc'[p] # "cam" /\ ~toolState.LaserCamera)
             => Refused(p, "ErrNoCamera")]_vars

\* What does hold: the refusals are made before anything else and values in
\* range are let through, but the power is refused when it compares below 0
\* or above 1.5, which a NaN does not.
RefusedBeforeAnything ==
    [][\A p \in Threads :
          /\ (pc[p] = "idle" /\ op'[p] = "LaserSpot")
             => IF Within(powerArg'[p], 0, 15) \/ powerArg'[p].k = "nan"
                   THEN pc'[p] = "try" ELSE Refused(p, "ErrInvalid")
          /\ (pc[p] = "idle" /\ op'[p] \in EncOps)
             => IF arg'[p] < 0 \/ arg'[p] > 100
                   THEN Refused(p, "ErrInvalid") ELSE pc'[p] = "enc_post"
          /\ (pc[p] = "cam" /\ pc'[p] # "cam")
             => IF ~toolState.LaserCamera
                   THEN Refused(p, "ErrNoCamera") ELSE pc'[p] = "try"
          /\ (pc'[p] \in {"post", "capture", "enc_post"} /\ pc[p] # pc'[p])
             => err[p] = "nil"]_vars

\* A LaserSpot with a NaN power holds the gate and is at its POST.
NaNPowerSent ==
    \E p \in Threads :
       op[p] = "LaserSpot" /\ pc[p] = "post" /\ powerArg[p].k = "nan" /\ moving

\* Every step of an Await leaves the session as it is; it returns nil only
\* from its locked read, when the cached status is the awaited one, and
\* otherwise only from its wait, with ErrCanceled, when its context is
\* cancelled; and from a wait with a cancelled context it does nothing else.
AwaitSafe ==
    [][\A p \in Threads :
          (op[p] = "Await" /\ pc'[p] # pc[p])
          => /\ UNCHANGED <<conn, snaps, session>>
             /\ pc'[p] = "ret"
                => IF pc[p] = "aw_read"
                      THEN /\ mu = NoOne /\ toolState.Status = statusArg[p]
                           /\ err'[p] = "nil"
                      ELSE /\ pc[p] = "aw_wait" /\ ctxDone[p]
                           /\ err'[p] = "ErrCanceled"
             /\ (pc[p] = "aw_wait" /\ ctxDone[p])
                => pc'[p] = "ret" /\ err'[p] = "ErrCanceled"]_vars

\* If the cached status is, from some point on, always the awaited one, a
\* running Await returns, and with nil unless its context was cancelled.
AwaitLive ==
    \A p \in Threads : \A status \in StatusVals :
       (<>[](toolState.Status = status))
       => ((op[p] = "Await" /\ statusArg[p] = status)
              ~> (pc[p] = "ret" /\ (err[p] = "nil" \/ ctxDone[p])))

\* C28: Await returns nil only after it has read, under c.mu, a cached
\* status equal to the awaited one; it returns ErrCanceled when its context
\* is cancelled while it waits; it never modifies the session; and if the
\* cached status becomes the awaited one and stays so, it returns nil (its
\* context not being cancelled).
C28_Await == AwaitSafe /\ AwaitLive

\* C28 witness: an Await for RUNNING went through its wait, found RUNNING
\* after a refresh and has returned nil with its context live.
C28_Witness ==
    \E p \in Threads :
       /\ op[p] = "Await" /\ pc[p] = "ret" /\ err[p] = "nil"
       /\ statusArg[p] = "RUNNING" /\ toolState.Status = "RUNNING"
       /\ waited[p] /\ ~ctxDone[p]

\* C24: cancellation only stops waiting.  An operation gets ErrCanceled
\* nowhere but in the retry wait of waitToMove or in the wait of Await, with
\* its context cancelled.  Once it holds the gate a cancelled context changes
\* nothing: doCode goes on to its POST as long as the session is connected,
\* a request in flight can still be answered and succeed, and the operation
\* goes its way to the release.
C24_CancelOnlyStopsWaiting ==
    [][\A p \in Threads :
          /\ (err'[p] = "ErrCanceled" /\ err[p] # "ErrCanceled")
             => pc[p] \in {"wait", "aw_wait"} /\ ctxDone[p]
          /\ (Holds(p) /\ ctxDone[p])
             => /\ (pc[p] = "code" /\ pc'[p] # "code" /\ connected)
                   => pc'[p] = "post"
                /\ pc[p] = "post" => ENABLED DoCodePost(p, TRUE)
                /\ pc[p] = "capture" => ENABLED SnapCapture(p, TRUE)
                /\ (pc[p] = "post" /\ pc'[p] # "post" /\ err'[p] = "nil")
                   => pc'[p] = IF idx[p] < Len(Codes(op[p], arg[p]))
                                  THEN "code" ELSE AfterCodes(op[p])]_vars

\* C24 witness: the context of a Home was cancelled while Home held the gate
\* and Home has sent both its lines and returned nil; the context of a
\* SnapAtJPEG of the other caller is cancelled with its capture request in
\* flight.
C24_Witness ==
    \E p, r \in Threads :
       /\ op[p] = "Home" /\ pc[p] = "ret" /\ err[p] = "nil" /\ idx[p] = 2
       /\ ctxDone[p]
       /\ op[r] = "SnapAtJPEG" /\ pc[r] = "capture" /\ ctxDone[r]

\* C31: a Close whose disconnect request fails returns the error of the
\* request and leaves the session as it was: connected stays true, moving,
\* the snapshots and the fixed fields are untouched; and a Close that finds
\* the session connected issues the disconnect request, so that a Close
\* after a failed one asks again.
C31_FailedCloseKeepsSession ==
    [][\A p \in Threads :
          /\ (pc[p] = "cl_post" /\ pc'[p] # "cl_post" /\ err'[p] # "nil")
             => /\ pc'[p] = "ret" /\ err'[p] = "ErrWire"
                /\ connected /\ connected'
                /\ UNCHANGED <<moving, hasEnclosure, snaps, session>>
          /\ (pc[p] = "cl_lock" /\ pc'[p] # "cl_lock" /\ connected)
             => pc'[p] = "cl_post" /\ mu' = p]_vars

\* C31 witness: a Close has returned the error of its disconnect request,
\* the session is still connected, and the Close of another caller, begun
\* after it, has its disconnect request under way.
C31_Witness ==
    \E p, r \in Threads :
        /\ op[p] = "Close" /\ pc[p] = "ret" /\ err[p] = "ErrWire"
        /\ op[r] = "Close" /\ pc[r] = "cl_post" /\ mu = r
        /\ connected

\* C36 as stated: a Step that got its G91 accepted has sent G90 by the time
\* it returns, also when the move between them failed.
C36_Original ==
    \A p \in Threads :
        (op[p] = "Step" /\ pc[p] = "ret" /\ idx[p] >= 2)
        => idx[p] = 3 /\ err[p] # "ErrNotConnected"

\* C37: GoToOrigin reads the cached Z under the lock after its grant and
\* before its first line, and the lines it sends are fixed by that reading:
\* with z < 0 the Z move "G0 F1500 Z0" and then "G0 X0 Y0", otherwise
\* "G0 F1500 X0 Y0" and then "G0 Z0".  The second line is checked and sent
\* only after the first was answered 200, and the caller holds the gate
\* (moving is set, and no other caller holds it) from the reading of Z to the
\* release after the last line.
C37_GoToOriginOrder ==
    [][\A p \in Threads : op[p] = "GoToOrigin" =>
          /\ (pc[p] = "try" /\ pc'[p] \notin {"try", "wait", "ret"})
             => ~moving /\ moving' /\ pc'[p] = "z"
          /\ (pc[p] = "z" /\ pc'[p] # "z")
             => /\ mu = NoOne /\ arg'[p] = toolState.Z
                /\ pc'[p] = "code" /\ idx'[p] = 1 /\ idx[p] = 1
          /\ pc[p] \in {"code", "post"}
             => /\ arg'[p] = arg[p]
                /\ Codes(op[p], arg[p]) =
                      IF arg[p] < 0 THEN <<"G0 F1500 Z0", "G0 X0 Y0">>
                                    ELSE <<"G0 F1500 X0 Y0", "G0 Z0">>
          /\ idx'[p] = 2 /\ idx[p] # 2
             => pc[p] = "post" /\ idx[p] = 1 /\ err'[p] = "nil"
          /\ pc[p] \in {"z", "code", "post", "release"}
             => /\ moving
                /\ \A r \in Threads \ {p} : ~Holds(r)
          /\ pc[p] = "release" /\ pc'[p] # "release"
             => ~moving' /\ pc'[p] = "ret"]_vars

\* C37 witness: two GoToOrigin calls, one after the other.  The first read
\* z = -1 and has returned after both its lines; the second read z = 1 and
\* has its second line, "G0 Z0", in flight.
C37_Witness ==
    \E p, r \in Threads :
        /\ op[p] = "GoToOrigin" /\ pc[p] = "ret" /\ err[p] = "nil"
        /\ arg[p] = -1 /\ idx[p] = 2
        /\ op[r] = "GoToOrigin" /\ pc[r] = "post" /\ arg[r] = 1 /\ idx[r] = 2
        /\ Codes(op[r], arg[r])[idx[r]] = "G0 Z0"

\* The pcs at which a thread is about to take c.mu.
AtLock == {"try", "release", "rd_lock", "cache", "cl_lock", "code", "st_lock", "z"}

\* C34: from the step that starts its queries to the step that returns,
\* which needs every query finished, a Status round holds c.mu.  While
\* the round is in flight moving and connected do not change, the snapshots
\* change only by a query of the round, no thread is reading a snapshot or
\* closing, and every other thread that is about to take the lock (a grant, a
\* release, a reader, MoveTo's cache update, doCode's check, Close, another
\* Status) stays where it is; with the return the lock is free again.
C34_RoundHoldsLock ==
    [][\A p \in Threads : pc[p] = "st_round" =>
          /\ mu = p
          /\ IF pc'[p] = "st_round"
                THEN mu' = p
                ELSE AllDone(q) /\ mu' = NoOne /\ UNCHANGED snaps
          /\ UNCHANGED <<moving, connected>>
          /\ snaps' # snaps => \E k \in Kinds : q[k] = "sent" /\ q'[k] # "sent"
          /\ \A r \in Threads \ {p} :
                /\ pc[r] \notin {"rd_read", "cl_post", "st_round"}
                /\ pc[r] \in AtLock => pc'[r] = pc[r]]_vars

\* C34 witness: a round has one snapshot written and a query still out, while
\* a MoveTo whose line was accepted waits for the lock to store its target.
C34_Witness ==
    \E p, r \in Threads :
        /\ op[p] = "Status" /\ pc[p] = "st_round" /\ mu = p
        /\ q["mod"] = "ok" /\ q["tool"] = "sent"
        /\ op[r] = "MoveTo" /\ pc[r] = "cache" /\ moving

\* C33 as stated: once a Close has completed successfully no execute_code
\* POST and no capture request is issued: doCode's POST and SnapAtJPEG's
\* capture GET are made on a connected session only.
C33_Original ==
    [][\A p \in Threads :
          (\/ pc[p] = "post" /\ pc'[p] # "post"
           \/ pc[p] = "capture" /\ pc'[p] # "capture")
          => connected]_vars

\* C32 as stated: after a successful Close every snapshot keeps the value it
\* had when Close completed.
C32_Original == [][~connected => UNCHANGED snaps]_vars

\* C32 amended: a Status that finds the session disconnected returns
\* ErrNotConnected (Step drops it) without taking the lock for a round,
\* starting a query or touching a snapshot, so on a disconnected session no
\* query is out and no round writes.  The one change of a snapshot still
\* possible after a Close is the cache update of a MoveTo whose move was
\* accepted: it stores its target into toolState and leaves the enclosure and
\* the module snapshot alone.
C32_Amended ==
    [][/\ \A p \in Threads :
             (pc[p] = "st_lock" /\ pc'[p] # "st_lock" /\ ~connected)
             => /\ pc'[p] = AfterStatus(p)
                /\ err'[p] = IF op[p] = "Step" THEN err[p] ELSE "ErrNotConnected"
                /\ UNCHANGED <<snaps, round, mu, connected>>
       /\ ~connected
          => /\ \A k \in Kinds : q[k] # "sent" /\ q'[k] # "sent"
             /\ \A p \in Threads : pc[p] # "st_round" /\ pc'[p] # "st_round"
             /\ snaps' # snaps
                => \E p \in Threads :
                      /\ op[p] = "MoveTo" /\ pc[p] = "cache" /\ pc'[p] = "release"
                      /\ toolState' = [toolState EXCEPT !.Z = arg[p]]
                      /\ UNCHANGED <<encState, modState>>]_vars

\* C32 witness: a Status called after a Close has returned ErrNotConnected,
\* while a MoveTo whose move was accepted is about to store its target, which
\* differs from the cached one.
C32_Witness ==
    \E p, r \in Threads :
        /\ ~connected
        /\ op[p] = "Status" /\ pc[p] = "ret" /\ err[p] = "ErrNotConnected"
        /\ op[r] = "MoveTo" /\ pc[r] = "cache" /\ arg[r] # toolState.Z

\* C35 as stated: when NewConn has returned an error it has returned no
\* Conn, and no poller of the session is running.
C35_Original ==
    (ncRet # NoRet /\ ncRet.err # "nil")
    => ~ncRet.c /\ pc[Poller] \in {"idle", "p_exit"}

\* C40: the channel once is closed exactly once on every path of the poller.
\* It is closed by a failed module listing, after which the goroutine
\* returns, or by the first iteration of the loop, whatever its Status
\* returned; no later iteration closes it again, so the goroutine never
\* panics in close and a closed once stays closed.  Whenever the poller has
\* left the listing with an error or delivered a first refresh, once is
\* closed and NewConn can return as long as the process lives.
C40_OnceClosedOnce ==
    [][/\ pc[Poller] # "p_panic" /\ pc'[Poller] # "p_panic"
       /\ once' # once
          => /\ ~once /\ once'
             /\ \/ /\ pc[Poller] = "p_list" /\ pc'[Poller] = "p_exit"
                   /\ pollErr' = "ErrList" /\ ~done
                \/ /\ pc[Poller] = "ret" /\ pc'[Poller] = "p_chk"
                   /\ ~done /\ done' /\ pollErr' = err[Poller]
       /\ (pc[Poller] = "ret" /\ pc'[Poller] # "ret" /\ done)
          => UNCHANGED <<once, pollErr, done>> /\ pc'[Poller] = "p_chk"
       /\ pc[Poller] \in {"p_exit", "p_chk", "p_wait", "p_fatal"} => once
       /\ done => once
       /\ (made /\ once /\ ncRet = NoRet /\ ~crashed) => ENABLED NewConnReturn]_vars

\* C40 witness: the poller is delivering the result of a later refresh, which
\* failed, with once closed by the first and NewConn returned nil.
C40_Witness ==
    /\ pc[Poller] = "p_chk" /\ err[Poller] # "nil"
    /\ done /\ once /\ pollErr = "nil"
    /\ ncRet = [c |-> TRUE, err |-> "nil"]

\* C38 as stated: String and MarshalJSON return a value, and the process
\* lives, on every record a successful decode has produced, one with a nil
\* Module included.
C38_Original ==
    ~(/\ crashed /\ result.err = "nil"
      /\ \E i \in 1..Len(result.entries) : result.entries[i].Variant = "none")

\* C39 as stated: over the calls of the public API, NowMoving included,
\* moving is cleared only by the release of the operation that holds the
\* gate and set only by a grant, so that no second motion operation is
\* admitted while the holder's is in progress.
C39_Original ==
    [][/\ (moving /\ ~moving')
          => \E p \in Threads : Holds(p) /\ pc[p] = "release" /\ pc'[p] # "release"
       /\ (~moving /\ moving')
          => \E p \in Threads : pc[p] = "try" /\ Holds(p)'
       /\ \A p, r \in Threads : (Holds(p) /\ Holds(r)) => p = r]_vars

\* Two motion operations hold the gate at once.
TwoHolders == \E p, r \in Threads : p # r /\ Holds(p) /\ Holds(r)

====
